---- MODULE Spec2Model ----
(***************************************************************************)
(* State-reconstruction engine of the Morpho V2 vault indexer.             *)
(*                                                                         *)
(* The engine is a set of event handlers (src/src/MorphoV2.ts, second      *)
(* handler version from line 200 on, and src/src/CheckpointHandlers.ts)    *)
(* that write to keyed tables (src/ponder.schema.ts).  A table is a        *)
(* function from the keys of its rows to the rows; the whole store is the  *)
(* record db of all tables.  A handler is a sequence of store calls; a     *)
(* call that raises (insert on an existing key, update of a missing row)   *)
(* ends the handler there, and the writes made before it stay, because the *)
(* handlers open no transaction and undo nothing.                          *)
(*                                                                         *)
(* Event ids are the template strings `${chainId}-${hash}-${logIndex}`;    *)
(* the three parts never contain "-", so the string is an injective        *)
(* encoding of the triple and is modelled as the tuple.  A suffixed id     *)
(* (`${id}-${i}`) is the tuple with one more component.                    *)
(***************************************************************************)
EXTENDS Integers, Sequences, FiniteSets, TLC

VARIABLES
    db,     \* the store: one field per table of ponder.schema.ts
    log,    \* the distinct events delivered so far, in delivery order
    last,   \* the delivery just processed and how its handler ended
    head,   \* per chain: number of distinct logs delivered so far
    steps,  \* number of deliveries so far (re-deliveries included)
    inflight \* handlers begun and not ended: event, calls left, what find saw

vars == <<db, log, last, head, steps, inflight>>

-----------------------------------------------------------------------------
(* Bounds and input sets of the model *)

MaxEvents == 3

Chains == {1, 2}
VaultAddresses == {"vA"}
VaultKeys == Chains \X VaultAddresses

zeroAddress == "0x0"
Accounts == {"A", "B"}
Identifiers == {"X", "Y"}

\* Fixed-point unit of the share price, scaled from 10^18 to fit TLC's integers.
WAD == 1000000

\* Result of the external convertToAssets read: a price, or a failure.
ReadFailed == -1
PriceReads == {ReadFailed, 1000001}

-----------------------------------------------------------------------------
(* The delivery stream: the n-th log of a chain.  Two logs per block from    *)
(* the second block on, each in a transaction of its own.                    *)

BlockOf(n) == (n \div 2) + 1
BlockTimestampOf(n) == 1000 + 12 * BlockOf(n)
TxHashOf(n) == n
TxIndexOf(n) == n % 2
LogIndexOf(n) == n % 2

MkEvent(kind, k, n, args) ==
    [ kind |-> kind, chainId |-> k[1], address |-> k[2],
      blockNumber |-> BlockOf(n), blockTimestamp |-> BlockTimestampOf(n),
      transactionHash |-> TxHashOf(n), transactionIndex |-> TxIndexOf(n),
      logIndex |-> LogIndexOf(n), args |-> args ]

VaultKeyOf(ev) == <<ev.chainId, ev.address>>

\* `${context.chain.id}-${event.transaction.hash}-${event.log.logIndex}`
EventId(ev) == <<ev.chainId, ev.transactionHash, ev.logIndex>>
\* First handler version: `${event.transaction.hash}-${event.log.logIndex}`.
\* The id has no chain part; NoChain fills its place in the key.
NoChain == 0
EventIdV1(ev) == <<NoChain, ev.transactionHash, ev.logIndex>>
\* `${eventId}-snapshot`
SnapshotId(ev) == <<ev.chainId, ev.transactionHash, ev.logIndex, "snapshot">>
\* `${baseEventId}-${i}`; a cap event uses the bare event id (NoIndex)
NoIndex == -1
\* CapCheckpointId without the index: the bare event id for every entry.
CapCheckpointId_NoSuffix(ev, i) == <<ev.chainId, ev.transactionHash, ev.logIndex, NoIndex>>
CapCheckpointId(ev, i) == <<ev.chainId, ev.transactionHash, ev.logIndex, i>>

-----------------------------------------------------------------------------
(* The store (context.db) *)

LedgerTables ==
    { "ownerSetEvent", "curatorSetEvent", "sentinelSetEvent", "allocatorSetEvent",
      "adapterMembershipEvent", "absoluteCapChangeEvent", "relativeCapChangeEvent",
      "allocateEvent", "deallocateEvent", "forceDeallocateEvent",
      "accrueInterestEvent", "depositEvent", "withdrawEvent", "transferEvent",
      "nameSetEvent", "symbolSetEvent", "gateSetEvent", "adapterRegistrySetEvent",
      "timelockDurationChangeEvent", "abdicateEvent", "liquidityAdapterSetEvent",
      "performanceFeeSetEvent", "performanceFeeRecipientSetEvent",
      "managementFeeSetEvent", "managementFeeRecipientSetEvent",
      "maxRateSetEvent", "forceDeallocatePenaltySetEvent" }

StateTables == { "vaultV2", "identifierState", "vaultAccount", "adapterPenalty" }

HistoryTables == { "vaultCheckpoint", "capCheckpoint", "vaultMetricsHistorical" }

Tables == LedgerTables \cup StateTables \cup HistoryTables

EmptyDb == [t \in Tables |-> <<>>]

Ok(d) == [db |-> d, ok |-> TRUE, err |-> "none"]
Raise(d, e) == [db |-> d, ok |-> FALSE, err |-> e]

\* context.db.find(table, key) !== null
Exists(d, table, key) == key \in DOMAIN d[table]

\* The row a conflict update or a set callback is handed: the stored row.
Row(d, table, key) == IF Exists(d, table, key) THEN {d[table][key]} ELSE {}

\* An insert that replaces the row of an existing key.
Insert_Overwrite(d, table, key, row) ==
    IF Exists(d, table, key)
    THEN Ok([d EXCEPT ![table][key] = row])
    ELSE Ok([d EXCEPT ![table] = @ @@ (key :> row)])

\* context.db.insert(table).values(row): raises on an existing key
Insert(d, table, key, row) ==
    IF Exists(d, table, key)
    THEN Raise(d, "UniqueConstraintError")
    ELSE Ok([d EXCEPT ![table] = @ @@ (key :> row)])

\* context.db.insert(table).values(row).onConflictDoUpdate(merge)
Upsert(d, table, key, row, merge) ==
    IF Exists(d, table, key)
    THEN Ok([d EXCEPT ![table][key] = merge[@]])
    ELSE Ok([d EXCEPT ![table] = @ @@ (key :> row)])

\* context.db.update(table, key).set(f): raises on a missing row
Update(d, table, key, set) ==
    IF Exists(d, table, key)
    THEN Ok([d EXCEPT ![table][key] = set[@]])
    ELSE Raise(d, "RecordNotFoundError")

\* The coordinate columns every ledger, checkpoint and snapshot row carries.
Coordinates(ev) ==
    [ chainId |-> ev.chainId, vaultAddress |-> ev.address,
      blockNumber |-> ev.blockNumber, blockTimestamp |-> ev.blockTimestamp,
      transactionHash |-> ev.transactionHash, logIndex |-> ev.logIndex ]

\* A ledger row: id, coordinates, transaction index and the event's payload.
LedgerRow(ev) ==
    [ id |-> EventId(ev), at |-> Coordinates(ev),
      transactionIndex |-> ev.transactionIndex, args |-> ev.args ]

-----------------------------------------------------------------------------
(* vaultV2 rows *)

\* A vaultV2 row as the schema completes an insert that names only the
\* creation facts, asset, owner, curator, name and symbol.
NewVaultRow(ev, asset, owner) ==
    [ chainId |-> ev.chainId, address |-> ev.address,
      createdAtBlock |-> ev.blockNumber,
      createdAtTimestamp |-> ev.blockTimestamp,
      createdAtTransaction |-> ev.transactionHash,
      asset |-> asset, owner |-> owner, curator |-> zeroAddress,
      allocators |-> <<>>, sentinels |-> <<>>,
      adapterRegistry |-> zeroAddress, adapters |-> <<>>,
      liquidityAdapter |-> zeroAddress, liquidityData |-> "",
      performanceFee |-> 0, performanceFeeRecipient |-> zeroAddress,
      managementFee |-> 0, managementFeeRecipient |-> zeroAddress,
      maxRate |-> 0,
      receiveSharesGate |-> zeroAddress, sendSharesGate |-> zeroAddress,
      receiveAssetsGate |-> zeroAddress, sendAssetsGate |-> zeroAddress,
      name |-> "", symbol |-> "",
      totalAssets |-> 0, totalSupply |-> 0, lastUpdateTimestamp |-> 0 ]

\* ensureVaultExists: find, and insert the zero fallback when absent.
ensureVaultExists(d, ev) ==
    IF Exists(d, "vaultV2", VaultKeyOf(ev))
    THEN Ok(d)
    ELSE Insert(d, "vaultV2", VaultKeyOf(ev), NewVaultRow(ev, zeroAddress, zeroAddress))

-----------------------------------------------------------------------------
(* VaultCheckpointManager *)

\* getCurrentState answering the zero fallback whatever the vault row holds.
Vault_getCurrentState_Fallback(d, k) ==
    [ totalAssets |-> 0, totalSupply |-> 0, maxRate |-> 0,
      performanceFee |-> 0, managementFee |-> 0,
      performanceFeeRecipient |-> zeroAddress,
      managementFeeRecipient |-> zeroAddress,
      lastUpdateTimestamp |-> 0 ]

\* getCurrentState: the accounting and fee columns of the vault row, or the
\* zero fallback when the row is missing.
Vault_getCurrentState(d, k) ==
    IF Exists(d, "vaultV2", k)
    THEN LET vault == d.vaultV2[k] IN
         [ totalAssets |-> vault.totalAssets, totalSupply |-> vault.totalSupply,
           maxRate |-> vault.maxRate, performanceFee |-> vault.performanceFee,
           managementFee |-> vault.managementFee,
           performanceFeeRecipient |-> vault.performanceFeeRecipient,
           managementFeeRecipient |-> vault.managementFeeRecipient,
           lastUpdateTimestamp |-> vault.lastUpdateTimestamp ]
    ELSE [ totalAssets |-> 0, totalSupply |-> 0, maxRate |-> 0,
           performanceFee |-> 0, managementFee |-> 0,
           performanceFeeRecipient |-> zeroAddress,
           managementFeeRecipient |-> zeroAddress,
           lastUpdateTimestamp |-> 0 ]

\* createCheckpoint handed the log index where the block timestamp belongs.
Vault_createCheckpoint_ArgsMixed(d, ev, state) ==
    Insert(d, "vaultCheckpoint", EventId(ev),
           [ id |-> EventId(ev),
             at |-> [ Coordinates(ev) EXCEPT !.blockTimestamp = ev.logIndex ],
             state |-> state ])

\* createCheckpoint: plain insert into vaultCheckpoint, keyed by the event id.
Vault_createCheckpoint(d, ev, state) ==
    Insert(d, "vaultCheckpoint", EventId(ev),
           [ id |-> EventId(ev), at |-> Coordinates(ev), state |-> state ])

\* handleAccountingEvent: read the current (post-mutation) state, insert it.
handleAccountingEvent(d, ev) ==
    Vault_createCheckpoint(d, ev, Vault_getCurrentState(d, VaultKeyOf(ev)))

\* handleConfigEvent: read the current (post-mutation) state, insert it.
handleConfigEvent(d, ev) ==
    Vault_createCheckpoint(d, ev, Vault_getCurrentState(d, VaultKeyOf(ev)))

-----------------------------------------------------------------------------
(* CapCheckpointManager *)

IdentifierKey(ev, identifierHash) == <<ev.chainId, ev.address, identifierHash>>

\* getCurrentState: the identifierState row, or all zeros when it is missing.
Cap_getCurrentState(d, ik) ==
    IF Exists(d, "identifierState", ik)
    THEN LET state == d.identifierState[ik] IN
         [ absoluteCap |-> state.absoluteCap, relativeCap |-> state.relativeCap,
           allocation |-> state.allocation ]
    ELSE [ absoluteCap |-> 0, relativeCap |-> 0, allocation |-> 0 ]

\* createCheckpoint: plain insert into capCheckpoint.
Cap_createCheckpoint(d, ev, identifierHash, id, state, identifierData) ==
    Insert(d, "capCheckpoint", id,
           [ id |-> id, at |-> Coordinates(ev), identifierHash |-> identifierHash,
             identifierData |-> identifierData,
             absoluteCap |-> state.absoluteCap, relativeCap |-> state.relativeCap,
             allocation |-> state.allocation ])

handleCapOrAllocationChange(d, ev, identifierHash, id, identifierData) ==
    Cap_createCheckpoint(d, ev, identifierHash, id,
                         Cap_getCurrentState(d, IdentifierKey(ev, identifierHash)),
                         identifierData)

-----------------------------------------------------------------------------
(* HistoricalSnapshotManager *)

\* bigint division truncates toward zero
TruncDiv(a, b) == IF a >= 0 THEN a \div b ELSE -((-a) \div b)

\* The identifierState keys of one (chain, vault).
IdentifiersOf(d, chainId, vaultAddress) ==
    { ik \in DOMAIN d.identifierState : ik[1] = chainId /\ ik[2] = vaultAddress }

\* SumAllocation keeping one allocation instead of adding them up.
SumAllocation_NotAdded(d, S) ==
    IF S = {} THEN 0 ELSE d.identifierState[CHOOSE x \in S : TRUE].allocation

RECURSIVE SumAllocation(_, _)
SumAllocation(d, S) ==
    IF S = {} THEN 0
    ELSE LET ik == CHOOSE x \in S : TRUE
         IN d.identifierState[ik].allocation + SumAllocation(d, S \ {ik})

\* ColumnMap reading the allocation column whatever column is asked for.
ColumnMap_Allocation(d, chainId, vaultAddress, column) ==
    [ h \in { ik[3] : ik \in IdentifiersOf(d, chainId, vaultAddress) } |->
        ToString(d.identifierState[<<chainId, vaultAddress, h>>].allocation) ]

\* hash -> decimal string of one column of the identifier rows of a vault
ColumnMap(d, chainId, vaultAddress, column) ==
    [ h \in { ik[3] : ik \in IdentifiersOf(d, chainId, vaultAddress) } |->
        ToString(d.identifierState[<<chainId, vaultAddress, h>>][column]) ]

\* rawSharePrice giving 0 for a vault without supply.
rawSharePrice_ZeroWhenEmpty(vault) ==
    IF vault.totalSupply > 0
    THEN TruncDiv(vault.totalAssets * WAD, vault.totalSupply)
    ELSE 0

rawSharePrice(vault) ==
    IF vault.totalSupply > 0
    THEN TruncDiv(vault.totalAssets * WAD, vault.totalSupply)
    ELSE WAD

\* sharePrice keeping its initial value, WAD, when the read fails.
sharePrice_DefaultKept(vault, read) ==
    IF read = ReadFailed THEN WAD ELSE read

\* the canonical price: the value read, or the raw price when the read fails
sharePrice(vault, read) ==
    IF read = ReadFailed THEN rawSharePrice(vault) ELSE read

\* shouldCreateSnapshot: the event types that should trigger a snapshot.
snapshotEvents ==
    { "Deposit", "Withdraw", "AccrueInterest", "Transfer",
      "Allocate", "Deallocate", "ForceDeallocate",
      "IncreaseAbsoluteCap", "DecreaseAbsoluteCap",
      "IncreaseRelativeCap", "DecreaseRelativeCap",
      "SetIsAllocator", "SetIsSentinel", "SetPerformanceFee", "SetManagementFee",
      "SetMaxRate", "SetOwner", "SetCurator",
      "AddAdapter", "RemoveAdapter", "SetAdapterRegistry",
      "SetForceDeallocatePenalty",
      "SetReceiveSharesGate", "SetSendSharesGate",
      "SetReceiveAssetsGate", "SetSendAssetsGate" }

shouldCreateSnapshot(eventType) == eventType \in snapshotEvents

\* createSnapshot raising when the vault has no row.
createSnapshot_Strict(d, ev, eventType, read) ==
    IF ~Exists(d, "vaultV2", VaultKeyOf(ev))
    THEN Raise(d, "RecordNotFoundError")
    ELSE Ok(d)

\* createSnapshot: nothing without a vault row; else one row copying the
\* vault row and the identifier rows.  (The previous snapshot is read for the
\* log message only.)
createSnapshot(d, ev, eventType, read) ==
    IF ~Exists(d, "vaultV2", VaultKeyOf(ev))
    THEN Ok(d)
    ELSE LET vault == d.vaultV2[VaultKeyOf(ev)]
             identifiers == IdentifiersOf(d, ev.chainId, ev.address)
         IN Insert(d, "vaultMetricsHistorical", SnapshotId(ev),
              [ id |-> SnapshotId(ev), at |-> Coordinates(ev),
                eventType |-> eventType,
                totalAssets |-> vault.totalAssets,
                totalSupply |-> vault.totalSupply,
                rawSharePrice |-> rawSharePrice(vault),
                sharePrice |-> sharePrice(vault, read),
                lastUpdateTimestamp |-> vault.lastUpdateTimestamp,
                allocations |-> ColumnMap(d, ev.chainId, ev.address, "allocation"),
                absoluteCaps |-> ColumnMap(d, ev.chainId, ev.address, "absoluteCap"),
                relativeCaps |-> ColumnMap(d, ev.chainId, ev.address, "relativeCap"),
                totalAllocated |-> SumAllocation(d, identifiers),
                maxRate |-> vault.maxRate,
                performanceFee |-> vault.performanceFee,
                managementFee |-> vault.managementFee,
                performanceFeeRecipient |-> vault.performanceFeeRecipient,
                managementFeeRecipient |-> vault.managementFeeRecipient,
                allocators |-> vault.allocators, sentinels |-> vault.sentinels,
                adapters |-> vault.adapters,
                receiveSharesGate |-> vault.receiveSharesGate,
                sendSharesGate |-> vault.sendSharesGate,
                receiveAssetsGate |-> vault.receiveAssetsGate,
                sendAssetsGate |-> vault.sendAssetsGate,
                owner |-> vault.owner, curator |-> vault.curator,
                adapterRegistry |-> vault.adapterRegistry,
                liquidityAdapter |-> vault.liquidityAdapter ])

-----------------------------------------------------------------------------
(* Accounting (CheckpointHandlers.ts) *)

AccountKey(ev, accountAddress) == <<ev.chainId, ev.address, accountAddress>>

\* A vaultAccount row as the schema completes an insert: the columns the
\* insert does not name take their defaults.
NewAccountRow(ev, accountAddress) ==
    [ chainId |-> ev.chainId, vaultAddress |-> ev.address,
      accountAddress |-> accountAddress,
      sharesBalance |-> 0,
      depositCount |-> 0, totalDepositedAssets |-> 0, totalDepositedShares |-> 0,
      withdrawCount |-> 0, totalWithdrawnAssets |-> 0, totalWithdrawnShares |-> 0,
      firstSeenBlockNumber |-> ev.blockNumber,
      firstSeenBlockTimestamp |-> ev.blockTimestamp,
      lastSeenBlockNumber |-> ev.blockNumber,
      lastSeenBlockTimestamp |-> ev.blockTimestamp,
      lastTransactionHash |-> ev.transactionHash,
      lastLogIndex |-> ev.logIndex ]

\* Touch that stamps the "first seen" columns as well.
Touch_FirstSeenToo(row, ev) ==
    [ row EXCEPT !.firstSeenBlockNumber = ev.blockNumber,
                 !.firstSeenBlockTimestamp = ev.blockTimestamp,
                 !.lastSeenBlockNumber = ev.blockNumber,
                 !.lastSeenBlockTimestamp = ev.blockTimestamp,
                 !.lastTransactionHash = ev.transactionHash,
                 !.lastLogIndex = ev.logIndex ]

\* the "last seen" columns every onConflictDoUpdate of vaultAccount sets
Touch(row, ev) ==
    [ row EXCEPT !.lastSeenBlockNumber = ev.blockNumber,
                 !.lastSeenBlockTimestamp = ev.blockTimestamp,
                 !.lastTransactionHash = ev.transactionHash,
                 !.lastLogIndex = ev.logIndex ]

\* .set({ totalAssets: newTotalAssets, lastUpdateTimestamp: block.timestamp })
AccrueInterestSet(row, ev) ==
    [ row EXCEPT !.totalAssets = ev.args.newTotalAssets,
                 !.lastUpdateTimestamp = ev.blockTimestamp ]

\* DepositSet that stamps the row with the event's time as well.
DepositSet_Timestamped(row, ev) ==
    [ row EXCEPT !.totalAssets = @ + ev.args.assets,
                 !.lastUpdateTimestamp = ev.blockTimestamp ]

\* DepositSet with the deposit overwriting the total instead of adding to it.
DepositSet_Overwrite(row, ev) == [ row EXCEPT !.totalAssets = ev.args.assets ]

\* .set((row) => ({ totalAssets: row.totalAssets + event.args.assets }))
DepositSet(row, ev) == [ row EXCEPT !.totalAssets = @ + ev.args.assets ]

\* .set((row) => ({ totalAssets: row.totalAssets - event.args.assets }))
WithdrawSet(row, ev) == [ row EXCEPT !.totalAssets = @ - ev.args.assets ]

\* MintSet where the last writer wins: the supply becomes the minted shares.
MintSet_LastWriter(row, ev) == [ row EXCEPT !.totalSupply = ev.args.shares ]

\* .set((row) => ({ totalSupply: row.totalSupply + shares }))
MintSet(row, ev) == [ row EXCEPT !.totalSupply = @ + ev.args.shares ]

\* BurnSet that adds the burnt shares to the supply.
BurnSet_Added(row, ev) == [ row EXCEPT !.totalSupply = @ + ev.args.shares ]

\* .set((row) => ({ totalSupply: row.totalSupply - shares }))
BurnSet(row, ev) == [ row EXCEPT !.totalSupply = @ - ev.args.shares ]

\* DepositAccountUpsert whose conflict update overwrites the accumulators
\* with the event's values.
DepositAccountUpsert_Overwrite(d, ev) ==
    Upsert(d, "vaultAccount", AccountKey(ev, ev.args.onBehalf),
           [ NewAccountRow(ev, ev.args.onBehalf) EXCEPT
               !.depositCount = 1,
               !.totalDepositedAssets = ev.args.assets,
               !.totalDepositedShares = ev.args.shares ],
           [ row \in Row(d, "vaultAccount", AccountKey(ev, ev.args.onBehalf)) |->
               Touch([ row EXCEPT
               !.depositCount = 1,
               !.totalDepositedAssets = ev.args.assets,
               !.totalDepositedShares = ev.args.shares ], ev) ])

DepositAccountUpsert(d, ev) ==
    Upsert(d, "vaultAccount", AccountKey(ev, ev.args.onBehalf),
           [ NewAccountRow(ev, ev.args.onBehalf) EXCEPT
               !.depositCount = 1,
               !.totalDepositedAssets = ev.args.assets,
               !.totalDepositedShares = ev.args.shares ],
           [ row \in Row(d, "vaultAccount", AccountKey(ev, ev.args.onBehalf)) |->
               Touch([ row EXCEPT
               !.depositCount = @ + 1,
               !.totalDepositedAssets = @ + ev.args.assets,
               !.totalDepositedShares = @ + ev.args.shares ], ev) ])

WithdrawAccountUpsert(d, ev) ==
    Upsert(d, "vaultAccount", AccountKey(ev, ev.args.onBehalf),
           [ NewAccountRow(ev, ev.args.onBehalf) EXCEPT
               !.withdrawCount = 1,
               !.totalWithdrawnAssets = ev.args.assets,
               !.totalWithdrawnShares = ev.args.shares ],
           [ row \in Row(d, "vaultAccount", AccountKey(ev, ev.args.onBehalf)) |->
               Touch([ row EXCEPT
               !.withdrawCount = @ + 1,
               !.totalWithdrawnAssets = @ + ev.args.assets,
               !.totalWithdrawnShares = @ + ev.args.shares ], ev) ])

\* applyShareDelta whose conflict update overwrites the balance with delta.
applyShareDelta_Overwrite(d, ev, accountAddress, delta) ==
    IF accountAddress = zeroAddress
    THEN Ok(d)
    ELSE Upsert(d, "vaultAccount", AccountKey(ev, accountAddress),
                [ NewAccountRow(ev, accountAddress) EXCEPT !.sharesBalance = delta ],
                [ row \in Row(d, "vaultAccount", AccountKey(ev, accountAddress)) |->
                    Touch([ row EXCEPT !.sharesBalance = delta ], ev) ])

\* applyShareDelta with the sign of the delta lost on the way to the store.
applyShareDelta_SignFlipped(d, ev, accountAddress, delta) ==
    IF accountAddress = zeroAddress
    THEN Ok(d)
    ELSE Upsert(d, "vaultAccount", AccountKey(ev, accountAddress),
                [ NewAccountRow(ev, accountAddress) EXCEPT !.sharesBalance = -delta ],
                [ row \in Row(d, "vaultAccount", AccountKey(ev, accountAddress)) |->
                    Touch([ row EXCEPT !.sharesBalance = @ - delta ], ev) ])

\* applyShareDelta: nothing for the zero address; else upsert, a new row
\* starting at delta, an existing row accumulating it.
applyShareDelta(d, ev, accountAddress, delta) ==
    IF accountAddress = zeroAddress
    THEN Ok(d)
    ELSE Upsert(d, "vaultAccount", AccountKey(ev, accountAddress),
                [ NewAccountRow(ev, accountAddress) EXCEPT !.sharesBalance = delta ],
                [ row \in Row(d, "vaultAccount", AccountKey(ev, accountAddress)) |->
                    Touch([ row EXCEPT !.sharesBalance = @ + delta ], ev) ])

isMint(ev) == ev.args.from = zeroAddress
isBurn(ev) == ev.args.to = zeroAddress

-----------------------------------------------------------------------------
(* Ownership, roles and adapters (MorphoV2.ts) *)

Range(seq) == { seq[i] : i \in DOMAIN seq }

\* new Set(array): the distinct elements in first-occurrence order
RECURSIVE NewSet(_)
NewSet(seq) ==
    IF seq = <<>> THEN <<>>
    ELSE LET front == NewSet(SubSeq(seq, 1, Len(seq) - 1))
             x == seq[Len(seq)]
         IN IF x \in Range(front) THEN front ELSE Append(front, x)

\* set.add(x); [...set]
SetAdd(seq, x) ==
    LET set == NewSet(seq) IN IF x \in Range(set) THEN set ELSE Append(set, x)

\* set.delete(x); [...set]
SetDelete(seq, x) == SelectSeq(NewSet(seq), LAMBDA y : y # x)

\* SetOwnerSet that stamps the row with the event's time as well.
SetOwnerSet_Timestamped(row, ev) ==
    [ row EXCEPT !.owner = ev.args.newOwner, !.lastUpdateTimestamp = ev.blockTimestamp ]

SetOwnerSet(row, ev) == [ row EXCEPT !.owner = ev.args.newOwner ]

\* SetIsSentinelSet that adds the account whatever the flag says.
SetIsSentinelSet_AlwaysAdd(row, ev) ==
    [ row EXCEPT !.sentinels = SetAdd(@, ev.args.account) ]

SetIsSentinelSet(row, ev) ==
    [ row EXCEPT !.sentinels = IF ev.args.newIsSentinel
                               THEN SetAdd(@, ev.args.account)
                               ELSE SetDelete(@, ev.args.account) ]

\* SetIsAllocatorSet with the account pushed onto the array without the set.
SetIsAllocatorSet_Push(row, ev) ==
    [ row EXCEPT !.allocators = IF ev.args.newIsAllocator
                                THEN Append(@, ev.args.account)
                                ELSE SetDelete(@, ev.args.account) ]

SetIsAllocatorSet(row, ev) ==
    [ row EXCEPT !.allocators = IF ev.args.newIsAllocator
                                THEN SetAdd(@, ev.args.account)
                                ELSE SetDelete(@, ev.args.account) ]

AddAdapterSet(row, ev) == [ row EXCEPT !.adapters = SetAdd(@, ev.args.account) ]

RemoveAdapterSet(row, ev) == [ row EXCEPT !.adapters = SetDelete(@, ev.args.account) ]

-----------------------------------------------------------------------------
(* Caps (MorphoV2.ts) *)

\* An identifierState row from the values an insert names.
IdentifierRow(ev, identifierHash, absoluteCap, relativeCap, allocation) ==
    [ chainId |-> ev.chainId, vaultAddress |-> ev.address,
      identifierHash |-> identifierHash,
      absoluteCap |-> absoluteCap, relativeCap |-> relativeCap,
      allocation |-> allocation ]

\* AbsoluteCapMerge with the conflict update writing the whole inserted row.
AbsoluteCapMerge_WholeRow(row, ev) ==
    [ row EXCEPT !.absoluteCap = ev.args.newAbsoluteCap,
                 !.relativeCap = 0, !.allocation = 0 ]

\* .onConflictDoUpdate({ absoluteCap: event.args.newAbsoluteCap })
AbsoluteCapMerge(row, ev) == [ row EXCEPT !.absoluteCap = ev.args.newAbsoluteCap ]

\* .onConflictDoUpdate({ relativeCap: event.args.newRelativeCap })
RelativeCapMerge(row, ev) == [ row EXCEPT !.relativeCap = ev.args.newRelativeCap ]

AbsoluteCapUpsert(d, ev) ==
    Upsert(d, "identifierState", IdentifierKey(ev, ev.args.id),
           IdentifierRow(ev, ev.args.id, ev.args.newAbsoluteCap, 0, 0),
           [ row \in Row(d, "identifierState", IdentifierKey(ev, ev.args.id)) |->
               AbsoluteCapMerge(row, ev) ])

RelativeCapUpsert(d, ev) ==
    Upsert(d, "identifierState", IdentifierKey(ev, ev.args.id),
           IdentifierRow(ev, ev.args.id, 0, ev.args.newRelativeCap, 0),
           [ row \in Row(d, "identifierState", IdentifierKey(ev, ev.args.id)) |->
               RelativeCapMerge(row, ev) ])

-----------------------------------------------------------------------------
(* Allocations (MorphoV2.ts) *)

\* AllocationMerge with the change overwriting the allocation.
AllocationMerge_Overwrite(row, change) == [ row EXCEPT !.allocation = change ]

\* .onConflictDoUpdate((row) => ({ allocation: row.allocation + change }))
AllocationMerge(row, change) == [ row EXCEPT !.allocation = @ + change ]

\* The additive upsert of one entry of ids: a new row starts at the change.
AllocationUpsert(d, ev, identifierHash, change) ==
    Upsert(d, "identifierState", IdentifierKey(ev, identifierHash),
           IdentifierRow(ev, identifierHash, 0, 0, change),
           [ row \in Row(d, "identifierState", IdentifierKey(ev, identifierHash)) |->
               AllocationMerge(row, change) ])

\* allocationChange with the penalty subtracted as well.
allocationChange_WithPenalty(ev) == -(ev.args.assets + ev.args.penaltyAssets)

\* const allocationChange = -(event.args.assets)
allocationChange(ev) == -(ev.args.assets)

-----------------------------------------------------------------------------
(* The handlers.  A handler is the sequence of its awaited calls.            *)

\* The four gate setters.
GateKinds ==
    { "SetReceiveSharesGate", "SetSendSharesGate",
      "SetReceiveAssetsGate", "SetSendAssetsGate" }

\* gateType of the gateSetEvent row; the vault row's column is `${gateType}Gate`.
gateType(ev) ==
    CASE ev.kind = "SetReceiveSharesGate" -> "receiveShares"
      [] ev.kind = "SetSendSharesGate"    -> "sendShares"
      [] ev.kind = "SetReceiveAssetsGate" -> "receiveAssets"
      [] ev.kind = "SetSendAssetsGate"    -> "sendAssets"

\* The bytes the liquidityData() read returns at the event's block.
liquidityDataHex == "0xdata"

\* The event table a handler inserts its ledger row into.
LedgerTable(ev) ==
    CASE ev.kind \in {"SetOwner", "v1:SetOwner"}                    -> "ownerSetEvent"
      [] ev.kind = "SetIsSentinel"                                  -> "sentinelSetEvent"
      [] ev.kind = "SetIsAllocator"                                 -> "allocatorSetEvent"
      [] ev.kind \in {"AddAdapter", "RemoveAdapter"}                -> "adapterMembershipEvent"
      [] ev.kind \in {"DecreaseAbsoluteCap", "IncreaseAbsoluteCap"} -> "absoluteCapChangeEvent"
      [] ev.kind \in {"DecreaseRelativeCap", "IncreaseRelativeCap"} -> "relativeCapChangeEvent"
      [] ev.kind = "Allocate"                                       -> "allocateEvent"
      [] ev.kind = "Deallocate"                                     -> "deallocateEvent"
      [] ev.kind = "ForceDeallocate"                                -> "forceDeallocateEvent"
      [] ev.kind = "AccrueInterest"                                 -> "accrueInterestEvent"
      [] ev.kind = "Deposit"                                        -> "depositEvent"
      [] ev.kind = "Withdraw"                                       -> "withdrawEvent"
      [] ev.kind = "Transfer"                                       -> "transferEvent"
      [] ev.kind = "SetCurator"                                     -> "curatorSetEvent"
      [] ev.kind = "SetName"                                        -> "nameSetEvent"
      [] ev.kind = "SetSymbol"                                      -> "symbolSetEvent"
      [] ev.kind \in GateKinds                                      -> "gateSetEvent"
      [] ev.kind = "SetAdapterRegistry"                             -> "adapterRegistrySetEvent"
      [] ev.kind \in {"DecreaseTimelock", "IncreaseTimelock"}       -> "timelockDurationChangeEvent"
      [] ev.kind = "Abdicate"                                       -> "abdicateEvent"
      [] ev.kind = "SetLiquidityAdapterAndData"                     -> "liquidityAdapterSetEvent"
      [] ev.kind = "SetPerformanceFee"                              -> "performanceFeeSetEvent"
      [] ev.kind = "SetPerformanceFeeRecipient"                     -> "performanceFeeRecipientSetEvent"
      [] ev.kind = "SetManagementFee"                               -> "managementFeeSetEvent"
      [] ev.kind = "SetManagementFeeRecipient"                      -> "managementFeeRecipientSetEvent"
      [] ev.kind = "SetMaxRate"                                     -> "maxRateSetEvent"
      [] ev.kind = "SetForceDeallocatePenalty"                      -> "forceDeallocatePenaltySetEvent"

\* The values of the ledger row; the tables shared by two handlers carry the
\* handler's action.
LedgerValues(ev) ==
    CASE ev.kind = "AddAdapter"    -> [ row |-> LedgerRow(ev), action |-> "add" ]
      [] ev.kind = "RemoveAdapter" -> [ row |-> LedgerRow(ev), action |-> "remove" ]
      [] ev.kind \in {"DecreaseAbsoluteCap", "DecreaseRelativeCap", "DecreaseTimelock"}
                                   -> [ row |-> LedgerRow(ev), action |-> "decrease" ]
      [] ev.kind \in {"IncreaseAbsoluteCap", "IncreaseRelativeCap", "IncreaseTimelock"}
                                   -> [ row |-> LedgerRow(ev), action |-> "increase" ]
      [] ev.kind \in GateKinds     -> [ row |-> LedgerRow(ev), gateType |-> gateType(ev) ]
      [] ev.kind = "SetLiquidityAdapterAndData"
                                   -> [ row |-> LedgerRow(ev),
                                        newLiquidityData |-> liquidityDataHex ]
      [] OTHER                     -> LedgerRow(ev)

\* LedgerInsert with a conflict ignored instead of raised.
LedgerInsert_IgnoreConflict(d, ev) ==
    IF Exists(d, LedgerTable(ev), EventId(ev))
    THEN Ok(d)
    ELSE Insert(d, LedgerTable(ev), EventId(ev), LedgerValues(ev))

\* context.db.insert(<event table>).values({ id: eventId, ... })
LedgerInsert(d, ev) == Insert(d, LedgerTable(ev), EventId(ev), LedgerValues(ev))

\* The .set(...) of the handler's update of the vault row.
VaultSet(row, ev) ==
    CASE ev.kind \in {"SetOwner", "v1:SetOwner"} -> SetOwnerSet(row, ev)
      [] ev.kind = "SetIsSentinel"  -> SetIsSentinelSet(row, ev)
      [] ev.kind = "SetIsAllocator" -> SetIsAllocatorSet(row, ev)
      [] ev.kind = "AddAdapter"     -> AddAdapterSet(row, ev)
      [] ev.kind = "RemoveAdapter"  -> RemoveAdapterSet(row, ev)
      [] ev.kind = "AccrueInterest" -> AccrueInterestSet(row, ev)
      [] ev.kind = "Deposit"        -> DepositSet(row, ev)
      [] ev.kind = "Withdraw"       -> WithdrawSet(row, ev)
      [] ev.kind = "Transfer"       -> IF isMint(ev) THEN MintSet(row, ev)
                                                     ELSE BurnSet(row, ev)
      [] ev.kind = "SetCurator"     -> [ row EXCEPT !.curator = ev.args.newCurator ]
      [] ev.kind = "SetName"        -> [ row EXCEPT !.name = ev.args.newName ]
      [] ev.kind = "SetSymbol"      -> [ row EXCEPT !.symbol = ev.args.newSymbol ]
      [] ev.kind = "SetReceiveSharesGate" ->
            [ row EXCEPT !.receiveSharesGate = ev.args.newGate ]
      [] ev.kind = "SetSendSharesGate" ->
            [ row EXCEPT !.sendSharesGate = ev.args.newGate ]
      [] ev.kind = "SetReceiveAssetsGate" ->
            [ row EXCEPT !.receiveAssetsGate = ev.args.newGate ]
      [] ev.kind = "SetSendAssetsGate" ->
            [ row EXCEPT !.sendAssetsGate = ev.args.newGate ]
      [] ev.kind = "SetAdapterRegistry" ->
            [ row EXCEPT !.adapterRegistry = ev.args.newAdapterRegistry ]
      [] ev.kind = "SetLiquidityAdapterAndData" ->
            [ row EXCEPT !.liquidityAdapter = ev.args.newLiquidityAdapter,
                         !.liquidityData = liquidityDataHex ]
      [] ev.kind = "SetPerformanceFee" ->
            [ row EXCEPT !.performanceFee = ev.args.newPerformanceFee ]
      [] ev.kind = "SetPerformanceFeeRecipient" ->
            [ row EXCEPT !.performanceFeeRecipient = ev.args.newPerformanceFeeRecipient ]
      [] ev.kind = "SetManagementFee" ->
            [ row EXCEPT !.managementFee = ev.args.newManagementFee ]
      [] ev.kind = "SetManagementFeeRecipient" ->
            [ row EXCEPT !.managementFeeRecipient = ev.args.newManagementFeeRecipient ]
      [] ev.kind = "SetMaxRate"     -> [ row EXCEPT !.maxRate = ev.args.newMaxRate ]

\* context.db.update(vaultV2, { chainId, address }).set(...)
VaultUpdate(d, ev) ==
    Update(d, "vaultV2", VaultKeyOf(ev),
           [ row \in Row(d, "vaultV2", VaultKeyOf(ev)) |-> VaultSet(row, ev) ])

\* insert(adapterPenalty).values({...}).onConflictDoUpdate({ forceDeallocatePenalty })
AdapterPenaltyUpsert(d, ev) ==
    LET key == <<ev.chainId, ev.address, ev.args.adapter>> IN
    Upsert(d, "adapterPenalty", key,
           [ chainId |-> ev.chainId, vaultAddress |-> ev.address,
             adapterAddress |-> ev.args.adapter,
             forceDeallocatePenalty |-> ev.args.forceDeallocatePenalty ],
           [ row \in Row(d, "adapterPenalty", key) |->
               [ row EXCEPT !.forceDeallocatePenalty = ev.args.forceDeallocatePenalty ] ])

\* The change an allocation handler applies to every entry of ids.
ChangeOf(ev) ==
    IF ev.kind = "ForceDeallocate" THEN allocationChange(ev) ELSE ev.args.change

\* AllocationIteration with the cap checkpoint taken before the upsert.
AllocationIteration_CheckpointFirst(d, ev, i) ==
    LET identifierHash == ev.args.ids[i + 1]
        c == handleCapOrAllocationChange(d, ev, identifierHash,
                                         CapCheckpointId(ev, i), "null")
    IN IF c.ok
       THEN AllocationUpsert(c.db, ev, identifierHash, ChangeOf(ev))
       ELSE c

\* One pass of the loop over ids: the upsert, then the cap checkpoint
\* `${baseEventId}-${i}` with no identifier data.
AllocationIteration(d, ev, i) ==
    LET identifierHash == ev.args.ids[i + 1]
        u == AllocationUpsert(d, ev, identifierHash, ChangeOf(ev))
    IN IF u.ok
       THEN handleCapOrAllocationChange(u.db, ev, identifierHash,
                                        CapCheckpointId(ev, i), "null")
       ELSE u

\* for (let i = 0; i < event.args.ids.length; i++) { ... }
RECURSIVE AllocationLoop(_, _, _)
AllocationLoop(d, ev, i) ==
    IF i >= Len(ev.args.ids)
    THEN Ok(d)
    ELSE CHOOSE out \in { IF r.ok THEN AllocationLoop(r.db, ev, i + 1) ELSE r :
                            r \in { AllocationIteration(d, ev, i) } } : TRUE

\* One awaited call of a handler.
Call(name, d, ev, read) ==
    CASE name = "ensureVaultExists" -> ensureVaultExists(d, ev)
      [] name = "insert vaultV2" ->
            Insert(d, "vaultV2", VaultKeyOf(ev), NewVaultRow(ev, ev.args.asset, ev.args.owner))
      [] name = "insert event" -> LedgerInsert(d, ev)
      [] name = "insert event (first version)" ->
            Insert(d, LedgerTable(ev), EventIdV1(ev), LedgerValues(ev))
      [] name = "update vaultV2" -> VaultUpdate(d, ev)
      [] name = "upsert vaultAccount" ->
            IF ev.kind = "Deposit" THEN DepositAccountUpsert(d, ev)
                                   ELSE WithdrawAccountUpsert(d, ev)
      [] name = "applyShareDelta(from)" ->
            IF ev.args.from # zeroAddress
            THEN applyShareDelta(d, ev, ev.args.from, -(ev.args.shares))
            ELSE Ok(d)
      [] name = "applyShareDelta(to)" ->
            IF ev.args.to # zeroAddress
            THEN applyShareDelta(d, ev, ev.args.to, ev.args.shares)
            ELSE Ok(d)
      [] name = "upsert identifierState" ->
            IF ev.kind \in {"DecreaseAbsoluteCap", "IncreaseAbsoluteCap"}
            THEN AbsoluteCapUpsert(d, ev)
            ELSE RelativeCapUpsert(d, ev)
      [] name = "handleCapOrAllocationChange" ->
            handleCapOrAllocationChange(d, ev, ev.args.id,
                                        CapCheckpointId(ev, NoIndex), ev.args.idData)
      [] name = "for ids" -> AllocationLoop(d, ev, 0)
      [] name = "handleAccountingEvent" -> handleAccountingEvent(d, ev)
      [] name = "handleConfigEvent" -> handleConfigEvent(d, ev)
      [] name = "upsert adapterPenalty" -> AdapterPenaltyUpsert(d, ev)
      [] name = "readContract liquidityData" ->
            IF read = ReadFailed THEN Raise(d, "ContractFunctionExecutionError")
                                 ELSE Ok(d)
      [] name = "createSnapshot" -> createSnapshot(d, ev, ev.kind, read)

\* The calls run in order on the store the call before left; a call that
\* raises ends the handler, and what the calls before it wrote stays.
RECURSIVE Await(_, _, _, _)
Await(r, calls, ev, read) ==
    IF calls = <<>> \/ ~r.ok
    THEN r
    ELSE CHOOSE out \in { Await(next, Tail(calls), ev, read) :
                            next \in { Call(Head(calls), r.db, ev, read) } } : TRUE

\* A Constructor handler that replaces the row it finds.
HandleConstructor_Replace(d, ev, read) ==
    Ok([ d EXCEPT !.vaultV2 =
           [ k \in DOMAIN @ \cup {VaultKeyOf(ev)} |->
               IF k = VaultKeyOf(ev) THEN NewVaultRow(ev, ev.args.asset, ev.args.owner)
                                     ELSE @[k] ] ])

\* MorphoV2:Constructor: a plain insert of the vault row.
HandleConstructor(d, ev, read) == Await(Ok(d), << "insert vaultV2" >>, ev, read)

\* Ownership, roles, adapters: ensureVaultExists, ledger insert, update of
\* the vault row, historical snapshot.
VaultFieldCalls ==
    << "ensureVaultExists", "insert event", "update vaultV2", "createSnapshot" >>

HandleSetOwner(d, ev, read) == Await(Ok(d), VaultFieldCalls, ev, read)
HandleSetIsSentinel(d, ev, read) == Await(Ok(d), VaultFieldCalls, ev, read)
HandleSetIsAllocator(d, ev, read) == Await(Ok(d), VaultFieldCalls, ev, read)
HandleAddAdapter(d, ev, read) == Await(Ok(d), VaultFieldCalls, ev, read)
HandleRemoveAdapter(d, ev, read) == Await(Ok(d), VaultFieldCalls, ev, read)

\* Caps: ledger insert, upsert of the identifier row, cap checkpoint,
\* snapshot.  No existence check of the vault row is made.
CapCalls ==
    << "insert event", "upsert identifierState", "handleCapOrAllocationChange",
       "createSnapshot" >>

HandleDecreaseAbsoluteCap(d, ev, read) == Await(Ok(d), CapCalls, ev, read)
HandleIncreaseAbsoluteCap(d, ev, read) == Await(Ok(d), CapCalls, ev, read)
HandleDecreaseRelativeCap(d, ev, read) == Await(Ok(d), CapCalls, ev, read)
HandleIncreaseRelativeCap(d, ev, read) == Await(Ok(d), CapCalls, ev, read)

\* Allocate, Deallocate: ledger insert, loop over ids, snapshot.  No
\* existence check of the vault row is made.
HandleAllocate(d, ev, read) ==
    Await(Ok(d), << "insert event", "for ids", "createSnapshot" >>, ev, read)

HandleDeallocate(d, ev, read) ==
    Await(Ok(d), << "insert event", "for ids", "createSnapshot" >>, ev, read)

ForceDeallocateCalls ==
    << "ensureVaultExists", "insert event", "for ids", "createSnapshot" >>

HandleForceDeallocate(d, ev, read) == Await(Ok(d), ForceDeallocateCalls, ev, read)

HandleAccrueInterest(d, ev, read) ==
    Await(Ok(d), << "ensureVaultExists", "insert event", "update vaultV2",
                    "handleAccountingEvent", "createSnapshot" >>, ev, read)

DepositCalls ==
    << "ensureVaultExists", "insert event", "update vaultV2",
       "upsert vaultAccount", "handleAccountingEvent", "createSnapshot" >>

HandleDeposit(d, ev, read) == Await(Ok(d), DepositCalls, ev, read)

HandleWithdraw(d, ev, read) ==
    Await(Ok(d), << "ensureVaultExists", "insert event", "update vaultV2",
                    "upsert vaultAccount", "handleAccountingEvent",
                    "createSnapshot" >>, ev, read)

\* The `if (isMint) ... else if (isBurn) ...` tail of the Transfer handler:
\* update of totalSupply, vault checkpoint, snapshot.
TransferSupplyCalls(ev) ==
    IF isMint(ev)
    THEN << "update vaultV2", "handleAccountingEvent", "createSnapshot" >>
    ELSE IF isBurn(ev)
    THEN << "update vaultV2", "handleAccountingEvent", "createSnapshot" >>
    ELSE << >>

\* Transfer: no existence check of the vault row is made.
HandleTransfer(d, ev, read) ==
    Await(Ok(d), << "insert event", "applyShareDelta(from)", "applyShareDelta(to)" >>
                   \o TransferSupplyCalls(ev), ev, read)

\* SetOwner of the first handler version: ledger insert under the id
\* without chain, update of the vault row; no existence check, no snapshot.
HandleSetOwnerV1(d, ev, read) ==
    Await(Ok(d), << "insert event (first version)", "update vaultV2" >>, ev, read)

\* Curator, gates, adapter registry: the calls of the ownership handlers.
HandleVaultField(d, ev, read) == Await(Ok(d), VaultFieldCalls, ev, read)

\* Name, symbol: ensureVaultExists, ledger insert, update; nothing else.
HandleSetNameOrSymbol(d, ev, read) ==
    Await(Ok(d), << "ensureVaultExists", "insert event", "update vaultV2" >>, ev, read)

\* Timelock changes and Abdicate: the ledger insert only.
HandleLedgerOnly(d, ev, read) == Await(Ok(d), << "insert event" >>, ev, read)

\* SetLiquidityAdapterAndData: the liquidityData() read is not guarded.
HandleSetLiquidityAdapterAndData(d, ev, read) ==
    Await(Ok(d), << "ensureVaultExists", "readContract liquidityData",
                    "insert event", "update vaultV2" >>, ev, read)

\* Fees, fee recipients, max rate: ensureVaultExists, ledger insert, update,
\* vault checkpoint, snapshot.
HandleFeeOrRate(d, ev, read) ==
    Await(Ok(d), << "ensureVaultExists", "insert event", "update vaultV2",
                    "handleConfigEvent", "createSnapshot" >>, ev, read)

\* SetForceDeallocatePenalty: ledger insert and upsert of the penalty row.
HandleSetForceDeallocatePenalty(d, ev, read) ==
    Await(Ok(d), << "insert event", "upsert adapterPenalty" >>, ev, read)

-----------------------------------------------------------------------------
(* Event dispatch and delivery *)

\* ponder.on(kind, handler): the handler registered for the event's kind.
Process(d, ev, read) ==
    CASE ev.kind = "Constructor"         -> HandleConstructor(d, ev, read)
      [] ev.kind = "SetOwner"            -> HandleSetOwner(d, ev, read)
      [] ev.kind = "v1:SetOwner"         -> HandleSetOwnerV1(d, ev, read)
      [] ev.kind = "SetIsSentinel"       -> HandleSetIsSentinel(d, ev, read)
      [] ev.kind = "SetIsAllocator"      -> HandleSetIsAllocator(d, ev, read)
      [] ev.kind = "AddAdapter"          -> HandleAddAdapter(d, ev, read)
      [] ev.kind = "RemoveAdapter"       -> HandleRemoveAdapter(d, ev, read)
      [] ev.kind = "DecreaseAbsoluteCap" -> HandleDecreaseAbsoluteCap(d, ev, read)
      [] ev.kind = "IncreaseAbsoluteCap" -> HandleIncreaseAbsoluteCap(d, ev, read)
      [] ev.kind = "DecreaseRelativeCap" -> HandleDecreaseRelativeCap(d, ev, read)
      [] ev.kind = "IncreaseRelativeCap" -> HandleIncreaseRelativeCap(d, ev, read)
      [] ev.kind = "Allocate"            -> HandleAllocate(d, ev, read)
      [] ev.kind = "Deallocate"          -> HandleDeallocate(d, ev, read)
      [] ev.kind = "ForceDeallocate"     -> HandleForceDeallocate(d, ev, read)
      [] ev.kind = "AccrueInterest"      -> HandleAccrueInterest(d, ev, read)
      [] ev.kind = "Deposit"             -> HandleDeposit(d, ev, read)
      [] ev.kind = "Withdraw"            -> HandleWithdraw(d, ev, read)
      [] ev.kind = "Transfer"            -> HandleTransfer(d, ev, read)
      [] ev.kind \in {"SetCurator", "SetAdapterRegistry"} \cup GateKinds
                                         -> HandleVaultField(d, ev, read)
      [] ev.kind \in {"SetName", "SetSymbol"}
                                         -> HandleSetNameOrSymbol(d, ev, read)
      [] ev.kind \in {"DecreaseTimelock", "IncreaseTimelock", "Abdicate"}
                                         -> HandleLedgerOnly(d, ev, read)
      [] ev.kind = "SetLiquidityAdapterAndData"
                                         -> HandleSetLiquidityAdapterAndData(d, ev, read)
      [] ev.kind \in {"SetPerformanceFee", "SetPerformanceFeeRecipient",
                      "SetManagementFee", "SetManagementFeeRecipient", "SetMaxRate"}
                                         -> HandleFeeOrRate(d, ev, read)
      [] ev.kind = "SetForceDeallocatePenalty"
                                         -> HandleSetForceDeallocatePenalty(d, ev, read)

NoEvent == [ kind |-> "none" ]

Init ==
    /\ db = EmptyDb
    /\ log = <<>>
    /\ last = [ event |-> NoEvent, ok |-> TRUE, err |-> "none", redelivery |-> FALSE,
                read |-> ReadFailed ]
    /\ head = [ c \in Chains |-> 0 ]
    /\ steps = 0
    /\ inflight = {}

\* One delivery: the handler runs to its end or to the first call that raises.
Deliver(ev, read, fresh) ==
    /\ steps < MaxEvents
    /\ \E r \in { Process(db, ev, read) } :
         /\ db' = r.db
         /\ last' = [ event |-> ev, ok |-> r.ok, err |-> r.err, redelivery |-> ~fresh,
                      read |-> read ]
    /\ log' = IF fresh THEN Append(log, ev) ELSE log
    /\ head' = IF fresh THEN [ head EXCEPT ![ev.chainId] = @ + 1 ] ELSE head
    /\ steps' = steps + 1
    /\ inflight' = inflight

\* The next log of the vault's chain, in canonical order.
Fresh(kind, k, args) == MkEvent(kind, k, head[k[1]] + 1, args)

Constructor(k, asset, owner) ==
    Deliver(Fresh("Constructor", k, [ asset |-> asset, owner |-> owner ]), ReadFailed, TRUE)

SetOwner(k, newOwner, read) ==
    Deliver(Fresh("SetOwner", k, [ newOwner |-> newOwner ]), read, TRUE)

SetIsSentinel(k, account, newIsSentinel, read) ==
    Deliver(Fresh("SetIsSentinel", k,
                  [ account |-> account, newIsSentinel |-> newIsSentinel ]), read, TRUE)

SetIsAllocator(k, account, newIsAllocator, read) ==
    Deliver(Fresh("SetIsAllocator", k,
                  [ account |-> account, newIsAllocator |-> newIsAllocator ]), read, TRUE)

AddAdapter(k, account, read) ==
    Deliver(Fresh("AddAdapter", k, [ account |-> account ]), read, TRUE)

RemoveAdapter(k, account, read) ==
    Deliver(Fresh("RemoveAdapter", k, [ account |-> account ]), read, TRUE)

DecreaseAbsoluteCap(k, id, newAbsoluteCap, read) ==
    Deliver(Fresh("DecreaseAbsoluteCap", k,
                  [ sender |-> "S", id |-> id, idData |-> "data",
                    newAbsoluteCap |-> newAbsoluteCap ]), read, TRUE)

IncreaseAbsoluteCap(k, id, newAbsoluteCap, read) ==
    Deliver(Fresh("IncreaseAbsoluteCap", k,
                  [ id |-> id, idData |-> "data",
                    newAbsoluteCap |-> newAbsoluteCap ]), read, TRUE)

DecreaseRelativeCap(k, id, newRelativeCap, read) ==
    Deliver(Fresh("DecreaseRelativeCap", k,
                  [ sender |-> "S", id |-> id, idData |-> "data",
                    newRelativeCap |-> newRelativeCap ]), read, TRUE)

IncreaseRelativeCap(k, id, newRelativeCap, read) ==
    Deliver(Fresh("IncreaseRelativeCap", k,
                  [ id |-> id, idData |-> "data",
                    newRelativeCap |-> newRelativeCap ]), read, TRUE)

Allocate(k, ids, change, read) ==
    Deliver(Fresh("Allocate", k,
                  [ sender |-> "S", adapter |-> "Ad", assets |-> change,
                    ids |-> ids, change |-> change ]), read, TRUE)

Deallocate(k, ids, change, read) ==
    Deliver(Fresh("Deallocate", k,
                  [ sender |-> "S", adapter |-> "Ad", assets |-> -change,
                    ids |-> ids, change |-> change ]), read, TRUE)

ForceDeallocate(k, ids, assets, penaltyAssets, read) ==
    Deliver(Fresh("ForceDeallocate", k,
                  [ sender |-> "S", adapter |-> "Ad", assets |-> assets,
                    ids |-> ids, onBehalf |-> "A",
                    penaltyAssets |-> penaltyAssets ]), read, TRUE)

AccrueInterest(k, newTotalAssets, read) ==
    Deliver(Fresh("AccrueInterest", k,
                  [ previousTotalAssets |-> 0, newTotalAssets |-> newTotalAssets,
                    performanceFeeShares |-> 0, managementFeeShares |-> 0 ]), read, TRUE)

Deposit(k, onBehalf, assets, shares, read) ==
    Deliver(Fresh("Deposit", k,
                  [ sender |-> onBehalf, onBehalf |-> onBehalf,
                    assets |-> assets, shares |-> shares ]), read, TRUE)

Withdraw(k, onBehalf, assets, shares, read) ==
    Deliver(Fresh("Withdraw", k,
                  [ sender |-> onBehalf, receiver |-> onBehalf, onBehalf |-> onBehalf,
                    assets |-> assets, shares |-> shares ]), read, TRUE)

Transfer(k, from, to, shares, read) ==
    Deliver(Fresh("Transfer", k, [ from |-> from, to |-> to, shares |-> shares ]),
            read, TRUE)

\* A SetOwner event met by the first handler version.
SetOwnerV1(k, newOwner) ==
    Deliver(Fresh("v1:SetOwner", k, [ newOwner |-> newOwner ]), ReadFailed, TRUE)

SetCurator(k, newCurator, read) ==
    Deliver(Fresh("SetCurator", k, [ newCurator |-> newCurator ]), read, TRUE)

SetName(k, newName) ==
    Deliver(Fresh("SetName", k, [ newName |-> newName ]), ReadFailed, TRUE)

SetSymbol(k, newSymbol) ==
    Deliver(Fresh("SetSymbol", k, [ newSymbol |-> newSymbol ]), ReadFailed, TRUE)

\* The four gate setters; kind is one of GateKinds.
SetGate(kind, k, newGate, read) ==
    Deliver(Fresh(kind, k, [ newGate |-> newGate ]), read, TRUE)

SetAdapterRegistry(k, newAdapterRegistry, read) ==
    Deliver(Fresh("SetAdapterRegistry", k,
                  [ newAdapterRegistry |-> newAdapterRegistry ]), read, TRUE)

\* DecreaseTimelock and IncreaseTimelock.
ChangeTimelock(kind, k, selector, newDuration) ==
    Deliver(Fresh(kind, k, [ selector |-> selector, newDuration |-> newDuration ]),
            ReadFailed, TRUE)

Abdicate(k, selector) ==
    Deliver(Fresh("Abdicate", k, [ selector |-> selector ]), ReadFailed, TRUE)

\* read is the outcome of the liquidityData() call.
SetLiquidityAdapterAndData(k, newLiquidityAdapter, read) ==
    Deliver(Fresh("SetLiquidityAdapterAndData", k,
                  [ sender |-> "S", newLiquidityAdapter |-> newLiquidityAdapter,
                    newLiquidityData |-> "0xhash" ]), read, TRUE)

SetPerformanceFee(k, newPerformanceFee, read) ==
    Deliver(Fresh("SetPerformanceFee", k,
                  [ newPerformanceFee |-> newPerformanceFee ]), read, TRUE)

SetPerformanceFeeRecipient(k, newPerformanceFeeRecipient, read) ==
    Deliver(Fresh("SetPerformanceFeeRecipient", k,
                  [ newPerformanceFeeRecipient |-> newPerformanceFeeRecipient ]),
            read, TRUE)

SetManagementFee(k, newManagementFee, read) ==
    Deliver(Fresh("SetManagementFee", k,
                  [ newManagementFee |-> newManagementFee ]), read, TRUE)

SetManagementFeeRecipient(k, newManagementFeeRecipient, read) ==
    Deliver(Fresh("SetManagementFeeRecipient", k,
                  [ newManagementFeeRecipient |-> newManagementFeeRecipient ]),
            read, TRUE)

SetMaxRate(k, newMaxRate, read) ==
    Deliver(Fresh("SetMaxRate", k, [ newMaxRate |-> newMaxRate ]), read, TRUE)

SetForceDeallocatePenalty(k, adapter, forceDeallocatePenalty) ==
    Deliver(Fresh("SetForceDeallocatePenalty", k,
                  [ adapter |-> adapter,
                    forceDeallocatePenalty |-> forceDeallocatePenalty ]),
            ReadFailed, TRUE)

\* The process stops while it handles a Deposit or a ForceDeallocate: the
\* first n awaited calls of the handler have run, the others have not.  The
\* store keeps what the calls wrote and the event stays to be delivered
\* again; last.before is the store the event met.
Crash(ev, read, n) ==
    /\ steps < MaxEvents
    /\ \E calls \in { IF ev.kind = "Deposit" THEN DepositCalls
                                               ELSE ForceDeallocateCalls } :
         /\ n \in 1..(Len(calls) - 1)
         /\ \E r \in { Await(Ok(db), SubSeq(calls, 1, n), ev, read) } :
              /\ db' = r.db
              /\ last' = [ event |-> ev, ok |-> FALSE, err |-> "Interrupted",
                           redelivery |-> FALSE, read |-> read, before |-> db ]
    /\ log' = Append(log, ev)
    /\ head' = [ head EXCEPT ![ev.chainId] = @ + 1 ]
    /\ steps' = steps + 1
    /\ inflight' = inflight

\* Two handlers at a time: the handler of a Deposit, a Transfer, an Allocate
\* or a ForceDeallocate begins while another one has not ended.
MaxInflight == 2
Begin(ev, read) ==
    /\ steps < MaxEvents
    /\ Cardinality(inflight) < MaxInflight
    /\ inflight' = inflight \cup
            { [ event |-> ev, read |-> read, existing |-> "not read", at |-> 0,
                calls |-> CASE ev.kind = "Deposit" -> DepositCalls
                            [] ev.kind = "ForceDeallocate" -> ForceDeallocateCalls
                            [] ev.kind = "Transfer" ->
                                 << "insert event", "applyShareDelta(from)",
                                    "applyShareDelta(to)" >> \o TransferSupplyCalls(ev)
                            [] OTHER -> << "insert event", "for ids", "createSnapshot" >> ] }
    /\ log' = Append(log, ev)
    /\ head' = [ head EXCEPT ![ev.chainId] = @ + 1 ]
    /\ steps' = steps + 1
    /\ UNCHANGED <<db, last>>

\* A handler in flight runs to its next await.  ensureVaultExists is two
\* awaits, the find and (row absent) the insert; the loop over ids is two
\* awaits for each id, the upsert and the cap checkpoint, counted by p.at;
\* every other call is one.  The handler ends with its last call or with
\* the first call that raises.
Step(p) ==
    /\ p \in inflight
    /\ IF Head(p.calls) = "ensureVaultExists" /\ p.existing = "not read"
          /\ ~Exists(db, "vaultV2", VaultKeyOf(p.event))
       THEN /\ inflight' = (inflight \ {p}) \cup { [ p EXCEPT !.existing = "absent" ] }
            /\ UNCHANGED <<db, last>>
       ELSE \E r \in { CASE Head(p.calls) = "ensureVaultExists" ->
                               IF p.existing = "absent"
                               THEN Insert(db, "vaultV2", VaultKeyOf(p.event),
                                           NewVaultRow(p.event, zeroAddress, zeroAddress))
                               ELSE Ok(db)
                          [] Head(p.calls) = "for ids" /\ p.event.args.ids # << >> ->
                               IF p.at % 2 = 0
                               THEN AllocationUpsert(db, p.event,
                                                     p.event.args.ids[(p.at \div 2) + 1],
                                                     ChangeOf(p.event))
                               ELSE handleCapOrAllocationChange(
                                        db, p.event, p.event.args.ids[(p.at \div 2) + 1],
                                        CapCheckpointId(p.event, p.at \div 2), "null")
                          [] OTHER -> Call(Head(p.calls), db, p.event, p.read) } :
              /\ db' = r.db
              /\ IF r.ok /\ Head(p.calls) = "for ids"
                      /\ p.at + 1 < 2 * Len(p.event.args.ids)
                 THEN /\ inflight' = (inflight \ {p}) \cup { [ p EXCEPT !.at = @ + 1 ] }
                      /\ last' = last
                 ELSE IF r.ok /\ Len(p.calls) > 1
                 THEN /\ inflight' = (inflight \ {p}) \cup
                                        { [ p EXCEPT !.calls = Tail(@), !.existing = "found",
                                                     !.at = 0 ] }
                      /\ last' = last
                 ELSE /\ inflight' = inflight \ {p}
                      /\ last' = [ event |-> p.event, ok |-> r.ok, err |-> r.err,
                                   redelivery |-> FALSE, read |-> p.read ]
    /\ UNCHANGED <<log, head, steps>>

\* At-least-once delivery: an event delivered before is delivered again.
Redeliver(i, read) == Deliver(log[i], read, FALSE)

-----------------------------------------------------------------------------
(* Specifications.  Spec delivers events of every kind, on one vault, with   *)
(* one representative input each; the others deliver the events of one       *)
(* family of handlers with their inputs varied, on the vaults of two chains. *)

IdLists == { <<"X">>, <<"X", "Y">>, <<"X", "X">> }
MainVault == <<1, "vA">>

Next ==
    \/ Constructor(MainVault, "USDC", "O1")
    \/ SetOwner(MainVault, "O2", ReadFailed)
    \/ SetIsSentinel(MainVault, "A", TRUE, ReadFailed)
    \/ SetIsAllocator(MainVault, "B", TRUE, ReadFailed)
    \/ AddAdapter(MainVault, "A", ReadFailed)
    \/ RemoveAdapter(MainVault, "A", ReadFailed)
    \/ DecreaseAbsoluteCap(MainVault, "X", 5, ReadFailed)
    \/ IncreaseAbsoluteCap(MainVault, "X", 1000, ReadFailed)
    \/ DecreaseRelativeCap(MainVault, "X", 6, ReadFailed)
    \/ IncreaseRelativeCap(MainVault, "X", 900, ReadFailed)
    \/ Allocate(MainVault, <<"X">>, 200, ReadFailed)
    \/ Deallocate(MainVault, <<"X">>, -50, ReadFailed)
    \/ ForceDeallocate(MainVault, <<"X">>, 70, 30, ReadFailed)
    \/ AccrueInterest(MainVault, 7, ReadFailed)
    \/ \E read \in PriceReads : Deposit(MainVault, "A", 3, 2, read)
    \/ Withdraw(MainVault, "A", 3, 2, ReadFailed)
    \/ Transfer(MainVault, zeroAddress, "A", 2, ReadFailed)
    \/ \E i \in DOMAIN log : Redeliver(i, ReadFailed)

Spec == Init /\ [][Next]_vars

NextAccounting ==
    \E k \in VaultKeys :
        \/ Constructor(k, "USDC", "O1")
        \/ \E n \in {0, 7} : AccrueInterest(k, n, ReadFailed)
        \/ \E a \in Accounts, x \in {3, 5} : Deposit(k, a, x, 2, ReadFailed)
        \/ \E a \in Accounts : Withdraw(k, a, 3, 2, ReadFailed)
        \/ \E i \in DOMAIN log : Redeliver(i, ReadFailed)

SpecAccounting == Init /\ [][NextAccounting]_vars

NextTransfer ==
    \E k \in VaultKeys :
        \/ Constructor(k, "USDC", "O1")
        \/ Deposit(k, "A", 3, 2, ReadFailed)
        \/ \E f \in Accounts \cup {zeroAddress}, t \in Accounts \cup {zeroAddress},
              x \in {2, 4} : Transfer(k, f, t, x, ReadFailed)
        \/ \E i \in DOMAIN log : Redeliver(i, ReadFailed)

SpecTransfer == Init /\ [][NextTransfer]_vars

NextRoles ==
    \/ \E k \in VaultKeys : Constructor(k, "USDC", "O1")
    \/ \E k \in VaultKeys : SetOwner(k, "O2", ReadFailed)
    \/ \E a \in Accounts, b \in BOOLEAN : SetIsSentinel(MainVault, a, b, ReadFailed)
    \/ \E a \in Accounts, b \in BOOLEAN : SetIsAllocator(MainVault, a, b, ReadFailed)
    \/ \E a \in Accounts : AddAdapter(MainVault, a, ReadFailed)
    \/ \E a \in Accounts : RemoveAdapter(MainVault, a, ReadFailed)
    \/ \E i \in DOMAIN log : Redeliver(i, ReadFailed)

SpecRoles == Init /\ [][NextRoles]_vars

NextCaps ==
    \/ \E id \in Identifiers : DecreaseAbsoluteCap(MainVault, id, 5, ReadFailed)
    \/ \E id \in Identifiers : IncreaseAbsoluteCap(MainVault, id, 1000, ReadFailed)
    \/ \E id \in Identifiers : DecreaseRelativeCap(MainVault, id, 6, ReadFailed)
    \/ \E id \in Identifiers : IncreaseRelativeCap(MainVault, id, 900, ReadFailed)
    \/ \E k \in VaultKeys, ids \in IdLists : Allocate(k, ids, 200, ReadFailed)
    \/ Deallocate(MainVault, <<"X", "Y">>, -50, ReadFailed)
    \/ \E ids \in { <<"X">>, <<"X", "X">> }, p \in {0, 30} :
          ForceDeallocate(MainVault, ids, 70, p, ReadFailed)
    \/ \E i \in DOMAIN log : Redeliver(i, ReadFailed)

SpecCaps == Init /\ [][NextCaps]_vars

\* Configuration: curator, name, symbol, gates, registry, timelocks,
\* liquidity adapter, fees, fee recipients, rate and penalty, with a deposit
\* and an accrual so that fee changes meet non-zero accounting.
NextConfig ==
    \/ Constructor(MainVault, "USDC", "O1")
    \/ Deposit(MainVault, "A", 5, 2, ReadFailed)
    \/ SetCurator(MainVault, "C1", ReadFailed)
    \/ SetName(MainVault, "Vault")
    \/ SetSymbol(MainVault, "VLT")
    \/ SetGate("SetReceiveSharesGate", MainVault, "G1", ReadFailed)
    \/ SetGate("SetSendSharesGate", MainVault, "G2", ReadFailed)
    \/ SetGate("SetReceiveAssetsGate", MainVault, "G3", ReadFailed)
    \/ SetGate("SetSendAssetsGate", MainVault, "G4", ReadFailed)
    \/ SetAdapterRegistry(MainVault, "R1", ReadFailed)
    \/ ChangeTimelock("DecreaseTimelock", MainVault, "sel", 10)
    \/ ChangeTimelock("IncreaseTimelock", MainVault, "sel", 20)
    \/ Abdicate(MainVault, "sel")
    \/ \E read \in PriceReads : SetLiquidityAdapterAndData(MainVault, "L1", read)
    \/ SetPerformanceFee(MainVault, 11, ReadFailed)
    \/ SetPerformanceFeeRecipient(MainVault, "A", ReadFailed)
    \/ SetManagementFee(MainVault, 12, ReadFailed)
    \/ SetManagementFeeRecipient(MainVault, "B", ReadFailed)
    \/ SetMaxRate(MainVault, 13, ReadFailed)
    \/ SetForceDeallocatePenalty(MainVault, "Ad", 14)
    \/ AccrueInterest(MainVault, 7, ReadFailed)
    \/ \E i \in DOMAIN log : Redeliver(i, ReadFailed)

SpecConfig == Init /\ [][NextConfig]_vars

\* Share balances: deposits, withdrawals and every kind of transfer (mint,
\* burn, between accounts, to oneself, zero to zero) on one vault.
NextBalances ==
    \/ Constructor(MainVault, "USDC", "O1")
    \/ Deposit(MainVault, "A", 3, 2, ReadFailed)
    \/ Withdraw(MainVault, "A", 3, 2, ReadFailed)
    \/ \E f \in Accounts \cup {zeroAddress}, t \in Accounts \cup {zeroAddress},
          x \in {2, 4} : Transfer(MainVault, f, t, x, ReadFailed)
    \/ \E i \in DOMAIN log : Redeliver(i, ReadFailed)

SpecBalances == Init /\ [][NextBalances]_vars

\* The first handler version on the vaults of two chains, whose logs share
\* transaction hashes and log indexes.
NextV1 ==
    \E k \in VaultKeys :
        \/ Constructor(k, "USDC", "O1")
        \/ \E o \in {"O2", "O3"} : SetOwnerV1(k, o)
        \/ \E i \in DOMAIN log : Redeliver(i, ReadFailed)

SpecV1 == Init /\ [][NextV1]_vars

\* Handlers of events of one vault whose awaits interleave.
NextInterleaved ==
    \/ Begin(Fresh("Deposit", MainVault,
                   [ sender |-> "A", onBehalf |-> "A", assets |-> 3, shares |-> 2 ]),
             ReadFailed)
    \/ Begin(Fresh("ForceDeallocate", MainVault,
                   [ sender |-> "S", adapter |-> "Ad", assets |-> 70,
                     ids |-> <<"X">>, onBehalf |-> "A", penaltyAssets |-> 30 ]),
             ReadFailed)
    \/ \E p \in inflight : Step(p)

SpecInterleaved == Init /\ [][NextInterleaved]_vars

\* Handlers that add to the same rows, their awaits interleaved, on a vault
\* whose Constructor was indexed: deposits of one account, mints to one
\* account, allocations to one identifier.
NextRace ==
    \/ Constructor(MainVault, "USDC", "O1")
    \/ /\ Exists(db, "vaultV2", MainVault)
       /\ Begin(Fresh("Deposit", MainVault,
                      [ sender |-> "A", onBehalf |-> "A", assets |-> 3, shares |-> 2 ]),
                ReadFailed)
    \/ /\ Exists(db, "vaultV2", MainVault)
       /\ Begin(Fresh("Transfer", MainVault,
                      [ from |-> zeroAddress, to |-> "A", shares |-> 2 ]), ReadFailed)
    \/ /\ Exists(db, "vaultV2", MainVault)
       /\ \E ids \in { <<"X">>, <<"X", "X">> } :
             Begin(Fresh("Allocate", MainVault,
                         [ sender |-> "S", adapter |-> "Ad", assets |-> 200,
                           ids |-> ids, change |-> 200 ]), ReadFailed)
    \/ \E p \in inflight : Step(p)

SpecRace == Init /\ [][NextRace]_vars

\* A vault whose history starts in the middle: withdrawals and burns may
\* come before the deposits and mints they undo.
NextPrice ==
    \/ Constructor(MainVault, "USDC", "O1")
    \/ \E x \in {1, 5} : Deposit(MainVault, "A", x, 3, ReadFailed)
    \/ \E x \in {1, 5} : Withdraw(MainVault, "A", x, 3, ReadFailed)
    \/ \E x \in {2, 3} : Transfer(MainVault, zeroAddress, "A", x, ReadFailed)
    \/ \E x \in {2, 3} : Transfer(MainVault, "A", zeroAddress, x, ReadFailed)
    \/ \E i \in DOMAIN log : Redeliver(i, ReadFailed)

SpecPrice == Init /\ [][NextPrice]_vars

\* Interruption: a Deposit or a ForceDeallocate is processed whole, or is
\* cut after any of its awaited calls and delivered again.
NextCrash ==
    \/ Constructor(MainVault, "USDC", "O1")
    \/ Deposit(MainVault, "A", 3, 2, ReadFailed)
    \/ ForceDeallocate(MainVault, <<"X">>, 70, 30, ReadFailed)
    \/ \E n \in 1..5 :
          Crash(Fresh("Deposit", MainVault,
                      [ sender |-> "A", onBehalf |-> "A", assets |-> 3, shares |-> 2 ]),
                ReadFailed, n)
    \/ \E n \in 1..3 :
          Crash(Fresh("ForceDeallocate", MainVault,
                      [ sender |-> "S", adapter |-> "Ad", assets |-> 70,
                        ids |-> <<"X">>, onBehalf |-> "A", penaltyAssets |-> 30 ]),
                ReadFailed, n)
    \/ \E i \in DOMAIN log : Redeliver(i, ReadFailed)

SpecCrash == Init /\ [][NextCrash]_vars

-----------------------------------------------------------------------------
(* Properties.  A step is a delivery when it advances steps; last' is then   *)
(* the outcome of the event just processed, db the store before it and db'   *)
(* the store after it.                                                       *)

Delivered == steps' # steps
FirstDelivery == Delivered /\ ~last'.redelivery

\* The number of times x occurs in seq.
RECURSIVE Occurrences(_, _)
Occurrences(seq, x) ==
    IF seq = <<>> THEN 0
    ELSE (IF Head(seq) = x THEN 1 ELSE 0) + Occurrences(Tail(seq), x)

\* C1: processing an event a second time leaves the store exactly as the
\* first processing left it: the ledger insert conflicts, the conflict is
\* detected (the handler raises), and no ledger row and no state or history
\* change is added.
C1_IdempotentRedelivery ==
    [][ (Delivered /\ last'.redelivery)
            => /\ db' = db
               /\ ~last'.ok
               /\ last'.err = "UniqueConstraintError" ]_vars

\* A Deposit has been delivered a second time, and its assets are counted once.
C1_Witness ==
    /\ last.redelivery
    /\ last.event.kind = "Deposit"
    /\ EventId(last.event) \in DOMAIN db.depositEvent
    /\ db.vaultV2[VaultKeyOf(last.event)].totalAssets = last.event.args.assets
    /\ db.vaultAccount[AccountKey(last.event, last.event.args.onBehalf)].depositCount = 1

\* The position in log of the last AccrueInterest of vault k, 0 if none.
LastAccrueInterest(k) ==
    LET S == { i \in DOMAIN log :
                 log[i].kind = "AccrueInterest" /\ VaultKeyOf(log[i]) = k }
    IN IF S = {} THEN 0 ELSE CHOOSE i \in S : \A j \in S : j <= i

\* Deposits minus withdraws of vault k among the events after position i.
RECURSIVE NetDeposits(_, _)
NetDeposits(k, i) ==
    IF i >= Len(log) THEN 0
    ELSE LET ev == log[i + 1]
             mine == VaultKeyOf(ev) = k
         IN (CASE mine /\ ev.kind = "Deposit"  -> ev.args.assets
               [] mine /\ ev.kind = "Withdraw" -> -(ev.args.assets)
               [] OTHER -> 0) + NetDeposits(k, i + 1)

\* C2: after any sequence of AccrueInterest, Deposit and Withdraw events, a
\* vault's totalAssets is the newTotalAssets of its last AccrueInterest (0 if
\* none) plus the later deposits minus the later withdraws, and its
\* lastUpdateTimestamp is the block time of that last AccrueInterest.
C2_AccountingConservation ==
    \A k \in DOMAIN db.vaultV2 :
        LET i == LastAccrueInterest(k)
            row == db.vaultV2[k]
        IN /\ row.totalAssets =
                (IF i = 0 THEN 0 ELSE log[i].args.newTotalAssets) + NetDeposits(k, i)
           /\ i # 0 => row.lastUpdateTimestamp = log[i].blockTimestamp

\* An AccrueInterest, then a Deposit, then a Withdraw of one vault.
C2_Witness ==
    \E k \in VaultKeys :
        /\ Len(log) = 3
        /\ \A i \in 1..3 : VaultKeyOf(log[i]) = k
        /\ log[1].kind = "AccrueInterest" /\ log[1].args.newTotalAssets = 7
        /\ log[2].kind = "Deposit" /\ log[2].args.assets = 5
        /\ log[3].kind = "Withdraw"
        /\ last.event = log[3] /\ last.ok
        /\ db.vaultV2[k].totalAssets = 7 + 5 - 3
        /\ db.vaultV2[k].lastUpdateTimestamp = log[1].blockTimestamp

\* C3: a share transfer from the zero address raises the vault's totalSupply
\* by shares, one to the zero address lowers it by shares, and one between
\* two accounts leaves it unchanged.
C3_SupplyTracking ==
    [][ \A k \in DOMAIN db.vaultV2 :
          LET ev == last'.event IN
          (FirstDelivery /\ ev.kind = "Transfer" /\ VaultKeyOf(ev) = k)
              => db'.vaultV2[k].totalSupply =
                     db.vaultV2[k].totalSupply
                       + (IF ev.args.from = zeroAddress THEN ev.args.shares ELSE 0)
                       - (IF ev.args.to = zeroAddress THEN ev.args.shares ELSE 0) ]_vars

\* C4: a transfer whose sender and recipient are both the zero address is
\* logged and not applied: its ledger row is inserted and nothing else in the
\* store changes.
C4_BothZeroTransferNoOp ==
    [][ LET ev == last'.event IN
        (FirstDelivery /\ ev.kind = "Transfer"
           /\ ev.args.from = zeroAddress /\ ev.args.to = zeroAddress)
            => /\ EventId(ev) \in DOMAIN db'.transferEvent
               /\ \A t \in Tables \ {"transferEvent"} : db'[t] = db[t] ]_vars

\* C5: after any event other than the creation event is processed for a vault
\* that had no row, the vault has a row: the zero fallback with the event's
\* own change on top (an allocator grant to B yields allocators = {B}).
C5_BackfillInvariant ==
    [][ LET ev == last'.event
            k == VaultKeyOf(ev)
        IN (FirstDelivery /\ ev.kind # "Constructor" /\ k \notin DOMAIN db.vaultV2)
            => /\ k \in DOMAIN db'.vaultV2
               /\ db'.vaultV2[k].asset = zeroAddress
               /\ db'.vaultV2[k].curator = zeroAddress
               /\ db'.vaultV2[k].name = "" /\ db'.vaultV2[k].symbol = ""
               /\ (ev.kind = "SetIsAllocator" /\ ev.args.newIsAllocator)
                     => db'.vaultV2[k].allocators = <<ev.args.account>> ]_vars

\* C6: no update of a vault row is ever issued for a key that has no vault
\* row (the store raises RecordNotFoundError on such an update).
C6_NoUpdateOfMissingRow == last.err # "RecordNotFoundError"

\* The role events, the array each one changes, and the direction.
IsRoleEvent(ev) ==
    ev.kind \in {"SetIsAllocator", "SetIsSentinel", "AddAdapter", "RemoveAdapter"}

RoleSetOf(row, ev) ==
    CASE ev.kind = "SetIsAllocator" -> row.allocators
      [] ev.kind = "SetIsSentinel"  -> row.sentinels
      [] OTHER                      -> row.adapters

Grants(ev) ==
    \/ ev.kind = "SetIsAllocator" /\ ev.args.newIsAllocator
    \/ ev.kind = "SetIsSentinel" /\ ev.args.newIsSentinel
    \/ ev.kind = "AddAdapter"

\* The delivery before this one applied the same change to the same vault.
SameAsLast(ev) ==
    /\ last.ok /\ ~last.redelivery
    /\ last.event.kind = ev.kind
    /\ VaultKeyOf(last.event) = VaultKeyOf(ev)
    /\ last.event.args = ev.args

\* C7: the allocator, sentinel and adapter arrays of a vault behave as sets:
\* a grant applied twice in a row, or a grant to a member, leaves the array
\* as it was, and so does a removal of an address that is not in it.
C7_RoleSetIdempotence ==
    [][ LET ev == last'.event
            k == VaultKeyOf(ev)
        IN (FirstDelivery /\ IsRoleEvent(ev))
            => /\ last'.ok
               /\ (Grants(ev) /\ SameAsLast(ev))
                     => RoleSetOf(db'.vaultV2[k], ev) = RoleSetOf(db.vaultV2[k], ev)
               /\ (Grants(ev) /\ k \in DOMAIN db.vaultV2
                     /\ ev.args.account \in Range(RoleSetOf(db.vaultV2[k], ev)))
                     => RoleSetOf(db'.vaultV2[k], ev) = RoleSetOf(db.vaultV2[k], ev)
               /\ (~Grants(ev) /\ k \in DOMAIN db.vaultV2
                     /\ ev.args.account \notin Range(RoleSetOf(db.vaultV2[k], ev)))
                     => RoleSetOf(db'.vaultV2[k], ev) = RoleSetOf(db.vaultV2[k], ev)
               /\ (~Grants(ev) /\ k \notin DOMAIN db.vaultV2)
                     => RoleSetOf(db'.vaultV2[k], ev) = <<>> ]_vars

\* The same allocator grant has been processed twice in a row, and the
\* account is in the array once.
C7_Witness ==
    /\ Len(log) >= 2
    /\ last.ok /\ ~last.redelivery
    /\ last.event = log[Len(log)]
    /\ last.event.kind = "SetIsAllocator"
    /\ log[Len(log) - 1].kind = "SetIsAllocator"
    /\ log[Len(log) - 1].args = last.event.args
    /\ VaultKeyOf(log[Len(log) - 1]) = VaultKeyOf(last.event)
    /\ last.event.args.newIsAllocator
    /\ db.vaultV2[VaultKeyOf(last.event)].allocators = <<last.event.args.account>>

IsAbsoluteCapEvent(ev) == ev.kind \in {"DecreaseAbsoluteCap", "IncreaseAbsoluteCap"}
IsRelativeCapEvent(ev) == ev.kind \in {"DecreaseRelativeCap", "IncreaseRelativeCap"}

\* C8: a cap event sets only the cap it names on its identifier: the other
\* cap and the allocation of an existing row are preserved, a new row has
\* them at 0, and no other identifier row changes.
C8_CapChangeFrame ==
    [][ LET ev == last'.event
            ik == IdentifierKey(ev, ev.args.id)
            pre == db.identifierState
            post == db'.identifierState
            had == ik \in DOMAIN pre
        IN (FirstDelivery /\ (IsAbsoluteCapEvent(ev) \/ IsRelativeCapEvent(ev)))
            => /\ last'.ok
               /\ DOMAIN post = DOMAIN pre \cup {ik}
               /\ \A o \in DOMAIN pre \ {ik} : post[o] = pre[o]
               /\ post[ik].allocation = (IF had THEN pre[ik].allocation ELSE 0)
               /\ IF IsAbsoluteCapEvent(ev)
                  THEN /\ post[ik].absoluteCap = ev.args.newAbsoluteCap
                       /\ post[ik].relativeCap = (IF had THEN pre[ik].relativeCap ELSE 0)
                  ELSE /\ post[ik].relativeCap = ev.args.newRelativeCap
                       /\ post[ik].absoluteCap = (IF had THEN pre[ik].absoluteCap ELSE 0) ]_vars

\* An absolute cap has been set on an identifier that already had a relative
\* cap and an allocation.
C8_Witness ==
    /\ last.ok /\ ~last.redelivery
    /\ last.event.kind = "IncreaseAbsoluteCap"
    /\ LET ik == IdentifierKey(last.event, last.event.args.id) IN
         /\ ik \in DOMAIN db.identifierState
         /\ db.identifierState[ik].absoluteCap = 1000
         /\ db.identifierState[ik].relativeCap = 900
         /\ db.identifierState[ik].allocation = 200

\* The sum, over the first n events of log, of change times the number of
\* occurrences of the identifier in ids, for the Allocate and Deallocate
\* events of the identifier's vault.
RECURSIVE SumOfChanges(_, _)
SumOfChanges(ik, n) ==
    IF n = 0 THEN 0
    ELSE LET ev == log[n] IN
         SumOfChanges(ik, n - 1)
           + (IF ev.kind \in {"Allocate", "Deallocate"} /\ VaultKeyOf(ev) = <<ik[1], ik[2]>>
              THEN ev.args.change * Occurrences(ev.args.ids, ik[3])
              ELSE 0)

\* The cap set by the last absolute (relative) cap event of log on the
\* identifier, or 0 when there is none.
LastAbsoluteCap(ik) ==
    LET S == { i \in DOMAIN log : /\ IsAbsoluteCapEvent(log[i])
                                  /\ IdentifierKey(log[i], log[i].args.id) = ik }
    IN IF S = {} THEN 0
       ELSE log[CHOOSE i \in S : \A j \in S : j <= i].args.newAbsoluteCap

LastRelativeCap(ik) ==
    LET S == { i \in DOMAIN log : /\ IsRelativeCapEvent(log[i])
                                  /\ IdentifierKey(log[i], log[i].args.id) = ik }
    IN IF S = {} THEN 0
       ELSE log[CHOOSE i \in S : \A j \in S : j <= i].args.newRelativeCap

\* Some ForceDeallocate of the identifier's vault names the identifier.
ForceDeallocated(ik) ==
    \E i \in DOMAIN log : /\ log[i].kind = "ForceDeallocate"
                          /\ VaultKeyOf(log[i]) = <<ik[1], ik[2]>>
                          /\ ik[3] \in Range(log[i].args.ids)

\* C9: after any sequence of cap, Allocate and Deallocate events, an
\* identifier's allocation is the sum of the changes of the Allocate and
\* Deallocate events, each counted once per occurrence of the identifier in
\* ids, and its caps are those the cap events set: Allocate and Deallocate
\* never change a cap.
C9_AdditiveAllocation ==
    \A ik \in DOMAIN db.identifierState :
        ~ForceDeallocated(ik)
            => /\ db.identifierState[ik].allocation = SumOfChanges(ik, Len(log))
               /\ db.identifierState[ik].absoluteCap = LastAbsoluteCap(ik)
               /\ db.identifierState[ik].relativeCap = LastRelativeCap(ik)

\* IncreaseAbsoluteCap(X, 1000), then Allocate([X], +200): X has absolute
\* cap 1000 and allocation 200.
C9_Witness ==
    /\ Len(log) = 2
    /\ log[1].kind = "IncreaseAbsoluteCap" /\ log[1].args.id = "X"
    /\ log[2].kind = "Allocate" /\ log[2].args.ids = <<"X">>
    /\ VaultKeyOf(log[1]) = MainVault /\ VaultKeyOf(log[2]) = MainVault
    /\ last.event = log[2] /\ last.ok
    /\ db.identifierState[<<1, "vA", "X">>].absoluteCap = 1000
    /\ db.identifierState[<<1, "vA", "X">>].allocation = 200

\* C10: a ForceDeallocate lowers the allocation of each identifier in ids by
\* assets, once per occurrence, whatever penaltyAssets is, and leaves every
\* cap and every other identifier as it was.
C10_ForceDeallocateDelta ==
    [][ LET ev == last'.event
            pre == db.identifierState
            post == db'.identifierState
        IN (FirstDelivery /\ ev.kind = "ForceDeallocate")
            => /\ last'.ok
               /\ \A ik \in DOMAIN pre \cup DOMAIN post :
                    LET n == IF VaultKeyOf(ev) = <<ik[1], ik[2]>>
                             THEN Occurrences(ev.args.ids, ik[3]) ELSE 0
                        had == ik \in DOMAIN pre
                    IN IF n = 0
                       THEN had /\ ik \in DOMAIN post /\ post[ik] = pre[ik]
                       ELSE /\ ik \in DOMAIN post
                            /\ post[ik].allocation =
                                 (IF had THEN pre[ik].allocation ELSE 0) - n * ev.args.assets
                            /\ post[ik].absoluteCap = (IF had THEN pre[ik].absoluteCap ELSE 0)
                            /\ post[ik].relativeCap = (IF had THEN pre[ik].relativeCap ELSE 0)
               /\ \A h \in Range(ev.args.ids) :
                    IdentifierKey(ev, h) \in DOMAIN post ]_vars

\* Allocate([X], +200), then ForceDeallocate([X], assets 70, penalty 30):
\* the allocation of X is 130.
C10_Witness ==
    /\ Len(log) = 2
    /\ log[1].kind = "Allocate" /\ log[1].args.ids = <<"X">>
    /\ VaultKeyOf(log[1]) = MainVault
    /\ last.event = log[2] /\ last.ok /\ ~last.redelivery
    /\ last.event.kind = "ForceDeallocate" /\ last.event.args.ids = <<"X">>
    /\ last.event.args.penaltyAssets = 30
    /\ VaultKeyOf(last.event) = MainVault
    /\ db.identifierState[<<1, "vA", "X">>].allocation = 200 - 70

-----------------------------------------------------------------------------
(* Historical snapshots and checkpoints *)

\* The snapshot rows a step inserts.
NewSnapshots == DOMAIN db'.vaultMetricsHistorical \ DOMAIN db.vaultMetricsHistorical

\* The columns a snapshot row shares with the vault row.
SnapshotVaultColumns ==
    { "totalAssets", "totalSupply", "lastUpdateTimestamp", "maxRate",
      "performanceFee", "managementFee", "performanceFeeRecipient",
      "managementFeeRecipient", "allocators", "sentinels", "adapters",
      "receiveSharesGate", "sendSharesGate", "receiveAssetsGate", "sendAssetsGate",
      "owner", "curator", "adapterRegistry", "liquidityAdapter" }

\* C11: a snapshot row is a complete copy of the current state as the event
\* that triggered it left it: every accounting, fee, rate, role, gate, owner,
\* curator and registry column equals the vault row's, and the allocations,
\* absoluteCaps and relativeCaps maps hold, for exactly the identifiers of
\* the vault, the values of the identifier rows.
C11_SnapshotIsCompleteCopy ==
    [][ \A id \in NewSnapshots :
          LET ev == last'.event
              snap == db'.vaultMetricsHistorical[id]
              k == <<snap.at.chainId, snap.at.vaultAddress>>
              hashes == { ik[3] : ik \in { x \in DOMAIN db'.identifierState :
                                              x[1] = k[1] /\ x[2] = k[2] } }
          IN /\ id = SnapshotId(ev) /\ k = VaultKeyOf(ev)
             /\ k \in DOMAIN db'.vaultV2
             /\ \A c \in SnapshotVaultColumns : snap[c] = db'.vaultV2[k][c]
             /\ DOMAIN snap.allocations = hashes
             /\ DOMAIN snap.absoluteCaps = hashes
             /\ DOMAIN snap.relativeCaps = hashes
             /\ \A h \in hashes :
                  LET state == db'.identifierState[<<k[1], k[2], h>>]
                  IN /\ snap.allocations[h] = ToString(state.allocation)
                     /\ snap.absoluteCaps[h] = ToString(state.absoluteCap)
                     /\ snap.relativeCaps[h] = ToString(state.relativeCap) ]_vars

\* Deposit(3), IncreaseAbsoluteCap(X, 1000), Withdraw(3): the Deposit's
\* snapshot has totalAssets 3 and no identifier, the Withdraw's has
\* totalAssets 0 and the absolute cap of X carried forward.
C11_Witness ==
    /\ Len(log) = 3 /\ last.event = log[3] /\ last.ok
    /\ log[1].kind = "Deposit" /\ log[2].kind = "IncreaseAbsoluteCap"
    /\ log[3].kind = "Withdraw"
    /\ SnapshotId(log[1]) \in DOMAIN db.vaultMetricsHistorical
    /\ SnapshotId(log[3]) \in DOMAIN db.vaultMetricsHistorical
    /\ db.vaultMetricsHistorical[SnapshotId(log[1])].totalAssets = 3
    /\ db.vaultMetricsHistorical[SnapshotId(log[1])].absoluteCaps = <<>>
    /\ db.vaultMetricsHistorical[SnapshotId(log[3])].totalAssets = 0
    /\ db.vaultMetricsHistorical[SnapshotId(log[3])].absoluteCaps = ("X" :> "1000")

\* C12: every processed event whose kind is on the snapshot allow-list
\* inserts exactly one snapshot row.
C12_AllowListedEventSnapshots ==
    [][ (FirstDelivery /\ last'.ok /\ shouldCreateSnapshot(last'.event.kind))
            => Cardinality(NewSnapshots) = 1 ]_vars

\* C13: a snapshot row is inserted only for events whose kind is on the
\* allow-list; an event of any other kind adds no snapshot row.
C13_OnlyAllowListedSnapshots ==
    [][ (Delivered /\ NewSnapshots # {})
            => shouldCreateSnapshot(last'.event.kind) ]_vars

\* The cap checkpoint rows a step inserts.
NewCapCheckpoints == DOMAIN db'.capCheckpoint \ DOMAIN db.capCheckpoint

\* The allocation of an identifier row, zero when the row is missing.
AllocationIn(d, ik) ==
    IF ik \in DOMAIN d.identifierState THEN d.identifierState[ik].allocation ELSE 0

\* C14: a cap checkpoint row holds the absoluteCap, relativeCap and
\* allocation of its identifier row as the mutation it follows left them: a
\* cap event's checkpoint equals the identifier row after the event, and the
\* checkpoint of entry i of an allocation event holds the caps of the row
\* and the allocation after the changes of entries 0..i.  The state of a
\* missing identifier row is read as zeros.
C14_CapCheckpointPostMutation ==
    [][ /\ \A id \in NewCapCheckpoints :
              LET ev == last'.event
                  cp == db'.capCheckpoint[id]
                  ik == <<cp.at.chainId, cp.at.vaultAddress, cp.identifierHash>>
                  post == db'.identifierState[ik]
                  delta == IF ev.kind = "ForceDeallocate" THEN -(ev.args.assets)
                                                          ELSE ev.args.change
              IN /\ id = CapCheckpointId(ev, id[4])
                 /\ ik \in DOMAIN db'.identifierState
                 /\ <<ik[1], ik[2]>> = VaultKeyOf(ev)
                 /\ cp.absoluteCap = post.absoluteCap
                 /\ cp.relativeCap = post.relativeCap
                 /\ IF id[4] = NoIndex
                    THEN /\ cp.identifierHash = ev.args.id
                         /\ cp.allocation = post.allocation
                    ELSE /\ cp.identifierHash = ev.args.ids[id[4] + 1]
                         /\ cp.allocation =
                              AllocationIn(db, ik)
                                + delta * Occurrences(SubSeq(ev.args.ids, 1, id[4] + 1),
                                                      cp.identifierHash)
        /\ \A h \in Identifiers :
              <<1, "vA", h>> \notin DOMAIN db.identifierState
                  => Cap_getCurrentState(db, <<1, "vA", h>>)
                       = [ absoluteCap |-> 0, relativeCap |-> 0, allocation |-> 0 ] ]_vars

\* IncreaseAbsoluteCap(X, 1000), then Allocate([X, X], +200): the cap
\* checkpoint of entry 0 holds allocation 200 and that of entry 1 holds 400,
\* both with absolute cap 1000.
C14_Witness ==
    /\ Len(log) = 2 /\ last.event = log[2] /\ last.ok
    /\ log[1].kind = "IncreaseAbsoluteCap" /\ log[1].args.id = "X"
    /\ log[2].kind = "Allocate" /\ log[2].args.ids = <<"X", "X">>
    /\ VaultKeyOf(log[2]) = MainVault
    /\ CapCheckpointId(log[2], 0) \in DOMAIN db.capCheckpoint
    /\ CapCheckpointId(log[2], 1) \in DOMAIN db.capCheckpoint
    /\ db.capCheckpoint[CapCheckpointId(log[2], 0)].allocation = 200
    /\ db.capCheckpoint[CapCheckpointId(log[2], 1)].allocation = 400
    /\ db.capCheckpoint[CapCheckpointId(log[2], 1)].absoluteCap = 1000
    /\ db.capCheckpoint[CapCheckpointId(log[1], NoIndex)].absoluteCap = 1000

\* The vault checkpoint rows a step inserts.
NewVaultCheckpoints == DOMAIN db'.vaultCheckpoint \ DOMAIN db.vaultCheckpoint

\* The columns a vault checkpoint row shares with the vault row.
CheckpointColumns ==
    { "totalAssets", "totalSupply", "maxRate", "performanceFee", "managementFee",
      "performanceFeeRecipient", "managementFeeRecipient", "lastUpdateTimestamp" }

\* totalAssets of a vault row, zero when the row is missing.
TotalAssetsIn(d, k) == IF k \in DOMAIN d.vaultV2 THEN d.vaultV2[k].totalAssets ELSE 0

C16_CheckpointPerVaultChange ==
    [][ LET ev == last'.event
            k == VaultKeyOf(ev)
        IN (/\ FirstDelivery /\ last'.ok
            /\ k \in DOMAIN db.vaultV2
            /\ db'.vaultV2[k] # db.vaultV2[k])
              => NewVaultCheckpoints = { EventId(ev) } ]_vars

\* The state a vault's events prescribe: an AccrueInterest sets totalAssets,
\* a Deposit adds and a Withdraw subtracts assets, a mint adds and a burn
\* subtracts shares, a fee, recipient or rate event sets its column.
Replayed(state, ev) ==
    CASE ev.kind = "AccrueInterest" ->
            [ state EXCEPT !.totalAssets = ev.args.newTotalAssets ]
      [] ev.kind = "Deposit"  -> [ state EXCEPT !.totalAssets = @ + ev.args.assets ]
      [] ev.kind = "Withdraw" -> [ state EXCEPT !.totalAssets = @ - ev.args.assets ]
      [] ev.kind = "Transfer" ->
            IF ev.args.from = zeroAddress /\ ev.args.to # zeroAddress
            THEN [ state EXCEPT !.totalSupply = @ + ev.args.shares ]
            ELSE IF ev.args.to = zeroAddress /\ ev.args.from # zeroAddress
            THEN [ state EXCEPT !.totalSupply = @ - ev.args.shares ]
            ELSE state
      [] ev.kind = "SetPerformanceFee" ->
            [ state EXCEPT !.performanceFee = ev.args.newPerformanceFee ]
      [] ev.kind = "SetManagementFee" ->
            [ state EXCEPT !.managementFee = ev.args.newManagementFee ]
      [] ev.kind = "SetPerformanceFeeRecipient" ->
            [ state EXCEPT !.performanceFeeRecipient = ev.args.newPerformanceFeeRecipient ]
      [] ev.kind = "SetManagementFeeRecipient" ->
            [ state EXCEPT !.managementFeeRecipient = ev.args.newManagementFeeRecipient ]
      [] ev.kind = "SetMaxRate" -> [ state EXCEPT !.maxRate = ev.args.newMaxRate ]
      [] OTHER -> state

\* The replay, in canonical order, of the first n delivered events that are
\* of vault k and have a block timestamp of at most T.
RECURSIVE Replay(_, _, _)
Replay(k, T, n) ==
    IF n = 0
    THEN [ totalAssets |-> 0, totalSupply |-> 0, maxRate |-> 0,
           performanceFee |-> 0, managementFee |-> 0,
           performanceFeeRecipient |-> zeroAddress,
           managementFeeRecipient |-> zeroAddress ]
    ELSE IF VaultKeyOf(log[n]) = k /\ log[n].blockTimestamp <= T
         THEN Replayed(Replay(k, T, n - 1), log[n])
         ELSE Replay(k, T, n - 1)

\* The checkpoints of vault k with a block timestamp of at most T.
CheckpointsUpTo(k, T) ==
    { id \in DOMAIN db.vaultCheckpoint :
        /\ db.vaultCheckpoint[id].at.chainId = k[1]
        /\ db.vaultCheckpoint[id].at.vaultAddress = k[2]
        /\ db.vaultCheckpoint[id].at.blockTimestamp <= T }

\* Checkpoint a is not later than checkpoint b: by timestamp, then by block
\* number and log index.
NotLater(a, b) ==
    \/ a.at.blockTimestamp < b.at.blockTimestamp
    \/ /\ a.at.blockTimestamp = b.at.blockTimestamp
       /\ \/ a.at.blockNumber < b.at.blockNumber
          \/ /\ a.at.blockNumber = b.at.blockNumber
             /\ a.at.logIndex <= b.at.logIndex

\* The block timestamps of the stream.
Timestamps == { BlockTimestampOf(n) : n \in 1..(MaxEvents + 1) }

\* C17: for any vault and time T, the latest vault checkpoint with a block
\* timestamp of at most T (the last in canonical order when several share
\* the timestamp) holds the totalAssets, totalSupply, fees, fee recipients
\* and rate that replaying the vault's events up to T gives.
C17_PointInTimeEquivalence ==
    \A k \in VaultKeys, T \in Timestamps :
        \A id \in CheckpointsUpTo(k, T) :
            (\A other \in CheckpointsUpTo(k, T) :
                 NotLater(db.vaultCheckpoint[other], db.vaultCheckpoint[id]))
              => LET state == db.vaultCheckpoint[id].state
                     replay == Replay(k, T, Len(log))
                 IN \A c \in DOMAIN replay : state[c] = replay[c]

\* The coordinates of the checkpoint rows, vault-level and identifier-level,
\* of vault k.
CheckpointCoordinates(k) ==
    { at \in { db.vaultCheckpoint[id].at : id \in DOMAIN db.vaultCheckpoint }
               \cup { db.capCheckpoint[id].at : id \in DOMAIN db.capCheckpoint } :
        at.chainId = k[1] /\ at.vaultAddress = k[2] }

\* C18: for any vault, the checkpoint rows, vault-level and
\* identifier-level, ordered by block number have non-decreasing block
\* timestamps.
C18_CheckpointMonotonicity ==
    \A k \in VaultKeys :
        \A a \in CheckpointCoordinates(k), b \in CheckpointCoordinates(k) :
            a.blockNumber <= b.blockNumber => a.blockTimestamp <= b.blockTimestamp

\* Deposit in block 1, IncreaseAbsoluteCap and Withdraw in block 2: two
\* vault checkpoints in different blocks and one cap checkpoint.
C18_Witness ==
    /\ Len(log) = 3 /\ last.event = log[3] /\ last.ok
    /\ log[1].kind = "Deposit" /\ log[2].kind = "IncreaseAbsoluteCap"
    /\ log[3].kind = "Withdraw"
    /\ EventId(log[1]) \in DOMAIN db.vaultCheckpoint
    /\ EventId(log[3]) \in DOMAIN db.vaultCheckpoint
    /\ CapCheckpointId(log[2], NoIndex) \in DOMAIN db.capCheckpoint
    /\ db.vaultCheckpoint[EventId(log[1])].at.blockNumber
         < db.vaultCheckpoint[EventId(log[3])].at.blockNumber
    /\ db.vaultCheckpoint[EventId(log[1])].at.blockTimestamp
         < db.vaultCheckpoint[EventId(log[3])].at.blockTimestamp
    /\ db.capCheckpoint[CapCheckpointId(log[2], NoIndex)].at.blockTimestamp
         = db.vaultCheckpoint[EventId(log[3])].at.blockTimestamp

-----------------------------------------------------------------------------
(* Depositor accounts *)

\* Event n of l is an event of the given kind on behalf of account ak.
OnBehalfOf(l, n, kind, ak) ==
    /\ l[n].kind = kind
    /\ AccountKey(l[n], l[n].args.onBehalf) = ak

\* Over the first n events of l: the sum of a field of the events of the
\* given kind on behalf of ak; field "count" counts them.
RECURSIVE SumOnBehalf(_, _, _, _, _)
SumOnBehalf(l, n, kind, ak, field) ==
    IF n = 0 THEN 0
    ELSE SumOnBehalf(l, n - 1, kind, ak, field)
           + (IF OnBehalfOf(l, n, kind, ak)
              THEN (IF field = "count" THEN 1 ELSE l[n].args[field])
              ELSE 0)

\* The six accumulators of every account row of d are the counts and sums
\* of the Deposit and Withdraw events of l on behalf of the account.
AccumulatorsMatch(d, l) ==
    \A ak \in DOMAIN d.vaultAccount :
        LET row == d.vaultAccount[ak] IN
        /\ row.depositCount = SumOnBehalf(l, Len(l), "Deposit", ak, "count")
        /\ row.totalDepositedAssets = SumOnBehalf(l, Len(l), "Deposit", ak, "assets")
        /\ row.totalDepositedShares = SumOnBehalf(l, Len(l), "Deposit", ak, "shares")
        /\ row.withdrawCount = SumOnBehalf(l, Len(l), "Withdraw", ak, "count")
        /\ row.totalWithdrawnAssets = SumOnBehalf(l, Len(l), "Withdraw", ak, "assets")
        /\ row.totalWithdrawnShares = SumOnBehalf(l, Len(l), "Withdraw", ak, "shares")

AccumulatorColumns ==
    { "depositCount", "totalDepositedAssets", "totalDepositedShares",
      "withdrawCount", "totalWithdrawnAssets", "totalWithdrawnShares" }

\* C19: an account's depositCount, totalDepositedAssets and
\* totalDepositedShares are the count and the sums of assets and shares of
\* the Deposit events on its behalf, and withdrawCount, totalWithdrawnAssets
\* and totalWithdrawnShares those of the Withdraw events on its behalf; an
\* account with such an event has a row, and none of the six ever decreases.
C19_DepositorAccumulators ==
    [][ /\ AccumulatorsMatch(db', log')
        /\ \A n \in DOMAIN log' :
              log'[n].kind \in {"Deposit", "Withdraw"}
                  => AccountKey(log'[n], log'[n].args.onBehalf) \in DOMAIN db'.vaultAccount
        /\ \A ak \in DOMAIN db.vaultAccount :
              /\ ak \in DOMAIN db'.vaultAccount
              /\ \A c \in AccumulatorColumns :
                    db'.vaultAccount[ak][c] >= db.vaultAccount[ak][c] ]_vars

\* Deposit(A, 3 assets, 2 shares), Deposit(A, 5, 2), Withdraw(A, 3, 2) on
\* one vault: A has depositCount 2, 8 assets and 4 shares deposited,
\* withdrawCount 1, 3 assets and 2 shares withdrawn.
C19_Witness ==
    /\ Len(log) = 3 /\ last.event = log[3] /\ last.ok
    /\ log[1].kind = "Deposit" /\ log[2].kind = "Deposit" /\ log[3].kind = "Withdraw"
    /\ \A n \in 1..3 : VaultKeyOf(log[n]) = MainVault /\ log[n].args.onBehalf = "A"
    /\ db.vaultAccount[<<1, "vA", "A">>].depositCount = 2
    /\ db.vaultAccount[<<1, "vA", "A">>].totalDepositedAssets = 8
    /\ db.vaultAccount[<<1, "vA", "A">>].totalDepositedShares = 4
    /\ db.vaultAccount[<<1, "vA", "A">>].withdrawCount = 1
    /\ db.vaultAccount[<<1, "vA", "A">>].totalWithdrawnAssets = 3
    /\ db.vaultAccount[<<1, "vA", "A">>].totalWithdrawnShares = 2

\* Over the first n events of l: the shares of the Transfer events to
\* account ak minus the shares of the Transfer events from it.
RECURSIVE NetTransferred(_, _, _)
NetTransferred(l, n, ak) ==
    IF n = 0 THEN 0
    ELSE NetTransferred(l, n - 1, ak)
           + (IF l[n].kind = "Transfer" /\ VaultKeyOf(l[n]) = <<ak[1], ak[2]>>
              THEN (IF l[n].args.to = ak[3] THEN l[n].args.shares ELSE 0)
                     - (IF l[n].args.from = ak[3] THEN l[n].args.shares ELSE 0)
              ELSE 0)

\* C20: the sharesBalance of a non-zero account is the sum of the shares of
\* the Transfer events to it minus the sum of the shares of the Transfer
\* events from it, an account named by a Transfer has a row, the zero
\* address never gets an account row, and a Deposit or a Withdraw changes no
\* sharesBalance (a row it creates starts at zero).
C20_DepositorBalance ==
    [][ /\ \A ak \in DOMAIN db'.vaultAccount :
              /\ ak[3] # zeroAddress
              /\ db'.vaultAccount[ak].sharesBalance = NetTransferred(log', Len(log'), ak)
        /\ \A n \in DOMAIN log' :
              log'[n].kind = "Transfer"
                  => \A a \in { log'[n].args.from, log'[n].args.to } \ { zeroAddress } :
                        AccountKey(log'[n], a) \in DOMAIN db'.vaultAccount
        /\ (Delivered /\ last'.event.kind \in {"Deposit", "Withdraw"})
              => \A ak \in DOMAIN db'.vaultAccount :
                    db'.vaultAccount[ak].sharesBalance
                      = (IF ak \in DOMAIN db.vaultAccount
                         THEN db.vaultAccount[ak].sharesBalance ELSE 0) ]_vars

\* Constructor, Transfer(0x0 -> A, 4), Transfer(A -> 0x0, 2): totalSupply is
\* 2 and the balance of A is 2, and the zero address has no row.
C20_Witness ==
    /\ Len(log) = 3 /\ last.event = log[3] /\ last.ok
    /\ log[1].kind = "Constructor"
    /\ log[2].kind = "Transfer" /\ log[3].kind = "Transfer"
    /\ log[2].args = [ from |-> zeroAddress, to |-> "A", shares |-> 4 ]
    /\ log[3].args = [ from |-> "A", to |-> zeroAddress, shares |-> 2 ]
    /\ db.vaultV2[MainVault].totalSupply = 2
    /\ db.vaultAccount[<<1, "vA", "A">>].sharesBalance = 2
    /\ DOMAIN db.vaultAccount = { <<1, "vA", "A">> }

\* Account ak is the sender of some delivered Transfer of its vault.
HasSent(ak) ==
    \E n \in DOMAIN log :
        /\ log[n].kind = "Transfer"
        /\ VaultKeyOf(log[n]) = <<ak[1], ak[2]>>
        /\ log[n].args.from = ak[3]

\* C21: an account that has only ever been the recipient of Transfer events,
\* never the sender, has a sharesBalance of at least zero.
C21_RecipientBalanceNonNegative ==
    \A ak \in DOMAIN db.vaultAccount :
        ~HasSent(ak) => db.vaultAccount[ak].sharesBalance >= 0

\* Transfer(A -> B, 2), Transfer(0x0 -> B, 4): B, a recipient only, holds 6,
\* while the sender A is at -2.
C21_Witness ==
    /\ Len(log) = 2 /\ last.event = log[2]
    /\ log[1].kind = "Transfer" /\ log[2].kind = "Transfer"
    /\ log[1].args = [ from |-> "A", to |-> "B", shares |-> 2 ]
    /\ log[2].args = [ from |-> zeroAddress, to |-> "B", shares |-> 4 ]
    /\ ~HasSent(<<1, "vA", "B">>)
    /\ db.vaultAccount[<<1, "vA", "B">>].sharesBalance = 6
    /\ db.vaultAccount[<<1, "vA", "A">>].sharesBalance = -2

-----------------------------------------------------------------------------
(* External reads, interruption, row identity *)

\* C22: a failure of an external contract read made while an event is
\* processed never fails the event: the first delivery of an event does not
\* end in the read's error, and the event's ledger row is written.
C22_ReadFailureNeverFatal ==
    [][ FirstDelivery
            => /\ last'.err # "ContractFunctionExecutionError"
               /\ last'.event.kind = "SetLiquidityAdapterAndData"
                     => EventId(last'.event) \in DOMAIN db'.liquidityAdapterSetEvent ]_vars

\* C23: when the convertToAssets read fails, createSnapshot still inserts the
\* snapshot, with sharePrice equal to its rawSharePrice, and does not raise;
\* when the read succeeds, sharePrice is the value read.
C23_CanonicalPriceFallback ==
    [][ /\ \A id \in NewSnapshots :
              LET snap == db'.vaultMetricsHistorical[id]
              IN snap.sharePrice = IF last'.read = ReadFailed
                                   THEN snap.rawSharePrice
                                   ELSE last'.read
        /\ (FirstDelivery /\ last'.event.kind = "Deposit")
              => /\ last'.ok
                 /\ NewSnapshots = { SnapshotId(last'.event) } ]_vars

\* Constructor, a mint of 2 shares with the read failing, a Deposit of 3
\* with the read answering: the mint's snapshot has sharePrice = its raw
\* price 0, the Deposit's has the value read beside a raw price of 1.5 WAD.
C23_Witness ==
    /\ Len(log) = 3 /\ last.event = log[3] /\ last.ok
    /\ log[1].kind = "Constructor" /\ log[2].kind = "Transfer"
    /\ log[3].kind = "Deposit" /\ last.read = 1000001
    /\ db.vaultMetricsHistorical[SnapshotId(log[2])].rawSharePrice = 0
    /\ db.vaultMetricsHistorical[SnapshotId(log[2])].sharePrice = 0
    /\ db.vaultMetricsHistorical[SnapshotId(log[3])].rawSharePrice = 1500000
    /\ db.vaultMetricsHistorical[SnapshotId(log[3])].sharePrice = 1000001

\* C24: when the processing of an event was interrupted after some of its
\* writes and the event is delivered again, the second processing completes
\* and leaves the tables that one uninterrupted processing of the event
\* would have left.
C24_CrashRecoveryByRedelivery ==
    [][ (/\ Delivered /\ last'.redelivery
         /\ last.err = "Interrupted" /\ last'.event = last.event)
            => /\ last'.ok
               /\ db' = Process(last.before, last.event, last.read).db ]_vars

\* The id a handler gives the ledger row of an event.
LedgerIdOf(ev) == IF ev.kind = "v1:SetOwner" THEN EventIdV1(ev) ELSE EventId(ev)

\* C25: ledger row ids are injective in (chain id, transaction hash, log
\* index): two events that differ in one of the three, the same transaction
\* hash and log index on two chains included, get different ids, and the
\* ledger insert of an event delivered for the first time never conflicts.
C25_LedgerIdInjective ==
    [][ /\ \A i \in DOMAIN log', j \in DOMAIN log' :
              <<log'[i].chainId, log'[i].transactionHash, log'[i].logIndex>>
                  # <<log'[j].chainId, log'[j].transactionHash, log'[j].logIndex>>
                => LedgerIdOf(log'[i]) # LedgerIdOf(log'[j])
        /\ (FirstDelivery /\ last'.event.kind # "Constructor")
              => last'.err # "UniqueConstraintError" ]_vars

\* The rows of table t written by events before the last one.
EarlierRows(t) ==
    { key \in DOMAIN db[t] : key[2] # last.event.transactionHash }

\* C26: the event ledger, the vault checkpoints, the cap checkpoints and the
\* snapshots are append-only: a row of one of these tables is never changed
\* and never removed by a later step.
C26_AppendOnlyHistory ==
    [][ \A t \in LedgerTables \cup HistoryTables :
            \A key \in DOMAIN db[t] :
                key \in DOMAIN db'[t] /\ db'[t][key] = db[t][key] ]_vars

\* A later event has been processed whole with a ledger row, a vault
\* checkpoint, a cap checkpoint and a snapshot of earlier events in place.
C26_Witness ==
    /\ Len(log) >= 2
    /\ last.ok
    /\ ~last.redelivery
    /\ \E t \in LedgerTables : EarlierRows(t) # {}
    /\ \A t \in HistoryTables : EarlierRows(t) # {}

\* C27: ensureVaultExists is idempotent under repetition and concurrency:
\* however the invocations for one vault interleave, a handler past its
\* ensureVaultExists finds the one row of the vault, and no event is failed
\* by the duplicate insert of two invocations that both saw the row absent.
C27_BackfillRaceBenign ==
    /\ \A p \in inflight :
          Head(p.calls) # "ensureVaultExists" => Exists(db, "vaultV2", VaultKeyOf(p.event))
    /\ last.err # "UniqueConstraintError"

(* Frames of the vault row *)

\* Owner, curator, role sets, gates and fee configuration of a vault row.
ConfigurationOf(row) ==
    [ owner |-> row.owner, curator |-> row.curator,
      allocators |-> row.allocators, sentinels |-> row.sentinels,
      adapters |-> row.adapters,
      receiveSharesGate |-> row.receiveSharesGate, sendSharesGate |-> row.sendSharesGate,
      receiveAssetsGate |-> row.receiveAssetsGate, sendAssetsGate |-> row.sendAssetsGate,
      performanceFee |-> row.performanceFee,
      performanceFeeRecipient |-> row.performanceFeeRecipient,
      managementFee |-> row.managementFee,
      managementFeeRecipient |-> row.managementFeeRecipient ]

\* C28: of the row of an existing vault, a Deposit and a Withdraw change
\* totalAssets only, an AccrueInterest changes totalAssets and
\* lastUpdateTimestamp only, a Transfer changes neither of the two, and none
\* of the four changes owner, curator, role sets, gates or fee configuration.
C28_AccountingFrame ==
    [][ \A k \in VaultKeys :
          (/\ Delivered
           /\ VaultKeyOf(last'.event) = k
           /\ Exists(db, "vaultV2", k))
          => LET old == db.vaultV2[k]
                 new == db'.vaultV2[k]
                 kind == last'.event.kind
             IN /\ kind \in {"Deposit", "Withdraw"}
                      => new = [ old EXCEPT !.totalAssets = new.totalAssets ]
                /\ kind = "AccrueInterest"
                      => new = [ old EXCEPT !.totalAssets = new.totalAssets,
                                            !.lastUpdateTimestamp = new.lastUpdateTimestamp ]
                /\ kind = "Transfer"
                      => /\ new.totalAssets = old.totalAssets
                         /\ new.lastUpdateTimestamp = old.lastUpdateTimestamp
                /\ kind \in {"Deposit", "Withdraw", "AccrueInterest", "Transfer"}
                      => ConfigurationOf(new) = ConfigurationOf(old) ]_vars

\* An AccrueInterest has set the totals of a vault whose owner was set and
\* which holds a deposit.
C28_Witness ==
    /\ last.ok
    /\ last.event.kind = "AccrueInterest"
    /\ \E i \in DOMAIN log : log[i].kind = "Deposit"
    /\ Exists(db, "vaultV2", MainVault)
    /\ db.vaultV2[MainVault].owner = "O2"
    /\ db.vaultV2[MainVault].totalAssets = 7
    /\ db.vaultV2[MainVault].lastUpdateTimestamp = last.event.blockTimestamp

\* The accounting columns of a vault row.
AccountingOf(row) ==
    [ totalAssets |-> row.totalAssets, totalSupply |-> row.totalSupply,
      lastUpdateTimestamp |-> row.lastUpdateTimestamp ]

\* The asset and the creation columns of a vault row.
OriginOf(row) ==
    [ asset |-> row.asset, createdAtBlock |-> row.createdAtBlock,
      createdAtTimestamp |-> row.createdAtTimestamp,
      createdAtTransaction |-> row.createdAtTransaction ]

\* AccrueInterest, Deposit, Withdraw, and a Transfer from or to the zero address.
IsAccountingMutator(ev) ==
    \/ ev.kind \in {"AccrueInterest", "Deposit", "Withdraw"}
    \/ ev.kind = "Transfer" /\ (ev.args.from = zeroAddress \/ ev.args.to = zeroAddress)

RoleEventsLike(ev) ==
    { i \in DOMAIN log :
        /\ IsRoleEvent(log[i])
        /\ VaultKeyOf(log[i]) = VaultKeyOf(ev)
        /\ (log[i].kind = ev.kind
              \/ {log[i].kind, ev.kind} = {"AddAdapter", "RemoveAdapter"})
        /\ log[i].args.account = ev.args.account }

\* C30: after any sequence of SetIsAllocator, SetIsSentinel, AddAdapter and
\* RemoveAdapter events the three arrays of a vault hold no address twice,
\* and an address is in an array exactly when the most recent event for
\* that array and address granted the role.
C30_RoleSetsFollowLastEvent ==
    /\ \A k \in DOMAIN db.vaultV2 :
          \A seq \in { db.vaultV2[k].allocators, db.vaultV2[k].sentinels,
                        db.vaultV2[k].adapters } :
              Cardinality(Range(seq)) = Len(seq)
    /\ \A i \in DOMAIN log :
          IsRoleEvent(log[i])
          => LET recent == CHOOSE j \in RoleEventsLike(log[i]) :
                               \A m \in RoleEventsLike(log[i]) : m <= j
                 row == db.vaultV2[VaultKeyOf(log[i])]
             IN log[i].args.account \in Range(RoleSetOf(row, log[i])) <=> Grants(log[recent])
    /\ \A k \in DOMAIN db.vaultV2 :
          \A a \in Range(db.vaultV2[k].allocators) \cup Range(db.vaultV2[k].sentinels)
                    \cup Range(db.vaultV2[k].adapters) :
              \E i \in DOMAIN log :
                  IsRoleEvent(log[i]) /\ VaultKeyOf(log[i]) = k /\ log[i].args.account = a

\* A sentinel granted and then revoked is out of the array, with another
\* sentinel still in it.
C30_Witness ==
    /\ Len(log) = 3
    /\ \A i \in DOMAIN log : log[i].kind = "SetIsSentinel"
    /\ log[1].args = [ account |-> "A", newIsSentinel |-> TRUE ]
    /\ log[2].args = [ account |-> "B", newIsSentinel |-> TRUE ]
    /\ log[3].args = [ account |-> "A", newIsSentinel |-> FALSE ]
    /\ last.ok /\ last.event = log[3]
    /\ db.vaultV2[MainVault].sentinels = << "B" >>

(* Snapshot columns, account stamps, write order *)

\* C31: in every snapshot rawSharePrice is totalAssets * WAD / totalSupply,
\* the quotient cut toward zero (the floor when totalAssets is not
\* negative), when the vault's totalSupply is above 0, and WAD otherwise, also
\* when burns seen before mints brought totalSupply to zero or below.
C31_RawSharePrice ==
    \A id \in DOMAIN db.vaultMetricsHistorical :
        LET row == db.vaultMetricsHistorical[id]
            scaled == row.totalAssets * WAD
        IN IF row.totalSupply > 0
           THEN IF scaled >= 0
                THEN row.rawSharePrice = scaled \div row.totalSupply
                ELSE row.rawSharePrice = -((-scaled) \div row.totalSupply)
           ELSE row.rawSharePrice = WAD

\* C31 as stated: the quotient is the floor whatever the sign of totalAssets.
C31_RawSharePriceFloor ==
    \A id \in DOMAIN db.vaultMetricsHistorical :
        LET row == db.vaultMetricsHistorical[id]
        IN row.rawSharePrice = IF row.totalSupply > 0
                               THEN (row.totalAssets * WAD) \div row.totalSupply
                               ELSE WAD

\* Snapshots of one vault with supply below zero and, later, with supply
\* and assets above zero.
C31_Witness ==
    \E a \in DOMAIN db.vaultMetricsHistorical, b \in DOMAIN db.vaultMetricsHistorical :
        /\ db.vaultMetricsHistorical[a].totalSupply < 0
        /\ db.vaultMetricsHistorical[a].rawSharePrice = WAD
        /\ db.vaultMetricsHistorical[b].totalSupply = 1
        /\ db.vaultMetricsHistorical[b].totalAssets = 5
        /\ db.vaultMetricsHistorical[b].rawSharePrice = 5 * WAD

\* The logged Deposit, Withdraw and Transfer events that touched account ak.
TouchesOf(ak) ==
    { n \in DOMAIN log :
        /\ VaultKeyOf(log[n]) = <<ak[1], ak[2]>>
        /\ \/ log[n].kind \in {"Deposit", "Withdraw"} /\ log[n].args.onBehalf = ak[3]
           \/ log[n].kind = "Transfer" /\ ak[3] \in {log[n].args.from, log[n].args.to} }

\* C32: the "first seen" block and time of a vaultAccount row are those of
\* the first Deposit, Withdraw or Transfer that touched the account, and its
\* "last seen" block and time, last transaction hash and last log index are
\* those of the most recent one.
C32_FirstAndLastSeen ==
    \A ak \in DOMAIN db.vaultAccount :
        /\ TouchesOf(ak) # {}
        /\ LET row == db.vaultAccount[ak]
               first == log[CHOOSE n \in TouchesOf(ak) : \A m \in TouchesOf(ak) : n <= m]
               recent == log[CHOOSE n \in TouchesOf(ak) : \A m \in TouchesOf(ak) : m <= n]
           IN /\ row.firstSeenBlockNumber = first.blockNumber
              /\ row.firstSeenBlockTimestamp = first.blockTimestamp
              /\ row.lastSeenBlockNumber = recent.blockNumber
              /\ row.lastSeenBlockTimestamp = recent.blockTimestamp
              /\ row.lastTransactionHash = recent.transactionHash
              /\ row.lastLogIndex = recent.logIndex

\* Account A was touched by a Deposit, by a Transfer and by a Withdraw of
\* three different transactions in two blocks.
C32_Witness ==
    /\ Len(log) = 3
    /\ log[1].kind = "Deposit" /\ log[2].kind = "Transfer" /\ log[3].kind = "Withdraw"
    /\ TouchesOf(<<1, "vA", "A">>) = {1, 2, 3}
    /\ log[1].blockNumber < log[3].blockNumber
    /\ last.ok /\ last.event = log[3]
    /\ db.vaultAccount[<<1, "vA", "A">>].firstSeenBlockNumber = log[1].blockNumber
    /\ db.vaultAccount[<<1, "vA", "A">>].lastTransactionHash = log[3].transactionHash

\* Table t holds a write of the interrupted event.
WrittenSince(before, t) == db[t] # before[t]

\* C33: the writes of one event come in the order ledger insert, mutation
\* of the current state, checkpoint insert, snapshot insert, update of the
\* depositor's account: wherever the processing of a Deposit on an existing
\* vault stops, a later write of this order is in the store only with all
\* the earlier ones.
C33_WriteOrder ==
    (/\ last.err = "Interrupted"
     /\ last.event.kind = "Deposit"
     /\ Exists(last.before, "vaultV2", VaultKeyOf(last.event)))
    => /\ WrittenSince(last.before, "vaultV2") => WrittenSince(last.before, "depositEvent")
       /\ WrittenSince(last.before, "vaultCheckpoint") => WrittenSince(last.before, "vaultV2")
       /\ WrittenSince(last.before, "vaultMetricsHistorical")
             => WrittenSince(last.before, "vaultCheckpoint")
       /\ WrittenSince(last.before, "vaultAccount")
             => WrittenSince(last.before, "vaultMetricsHistorical")

(* Interleaved handlers *)

\* Over the first n logged events: the sum of the deltas the events of the
\* given kind carry (assets of a Deposit, shares of a Transfer, change of an
\* Allocate for each occurrence of identifier X in its ids).
RECURSIVE DeltaSum(_, _)
DeltaSum(n, kind) ==
    IF n = 0 THEN 0
    ELSE DeltaSum(n - 1, kind)
           + (CASE log[n].kind # kind    -> 0
                [] kind = "Deposit"      -> log[n].args.assets
                [] kind = "Transfer"     -> log[n].args.shares
                [] OTHER                 -> log[n].args.change
                                              * Occurrences(log[n].args.ids, "X"))

\* The value of a column of a row, 0 while the row does not exist.
ColumnOr0(table, key, column) ==
    IF Exists(db, table, key) THEN db[table][key][column] ELSE 0

\* C34: no update is lost: once the handlers of deposits, mints and
\* allocations on an existing vault have all ended, however their awaits
\* interleaved, the vault's totalAssets and totalSupply, the account's
\* sharesBalance and deposit accumulators and the identifier's allocation
\* hold their initial value plus the delta of every one of the events.
C34_NoLostUpdate ==
    (inflight = {} /\ log # << >> /\ log[1].kind = "Constructor")
    => /\ db.vaultV2[MainVault].totalAssets = DeltaSum(Len(log), "Deposit")
       /\ db.vaultV2[MainVault].totalSupply = DeltaSum(Len(log), "Transfer")
       /\ ColumnOr0("vaultAccount", <<1, "vA", "A">>, "sharesBalance")
             = DeltaSum(Len(log), "Transfer")
       /\ ColumnOr0("vaultAccount", <<1, "vA", "A">>, "totalDepositedAssets")
             = DeltaSum(Len(log), "Deposit")
       /\ ColumnOr0("identifierState", <<1, "vA", "X">>, "allocation")
             = DeltaSum(Len(log), "Allocate")

\* Two deposits ran interleaved: each one took its checkpoint after the
\* other one had added its assets, and both have ended.
C34_Witness ==
    /\ inflight = {}
    /\ Len(log) = 3
    /\ log[1].kind = "Constructor" /\ log[2].kind = "Deposit" /\ log[3].kind = "Deposit"
    /\ EventId(log[2]) \in DOMAIN db.vaultCheckpoint
    /\ EventId(log[3]) \in DOMAIN db.vaultCheckpoint
    /\ db.vaultCheckpoint[EventId(log[2])].state.totalAssets = 6
    /\ db.vaultCheckpoint[EventId(log[3])].state.totalAssets = 6
    /\ db.vaultV2[MainVault].totalAssets = 6

(* Allocation events, share conservation, creation, snapshots *)

\* C35: an Allocate, Deallocate or ForceDeallocate event with n entries in
\* ids inserts exactly n cap checkpoint rows, under the event id suffixed by
\* the indexes 0..n-1; row i holds the identifier of entry i and its
\* allocation after the deltas of entries 0..i; an identifier that occurs k
\* times changes by k times the delta; and no insert meets a cap checkpoint
\* of another event.
C35_OneCapCheckpointPerEntry ==
    [][ (FirstDelivery /\ last'.event.kind \in {"Allocate", "Deallocate", "ForceDeallocate"})
        => LET ev == last'.event
               n == Len(ev.args.ids)
               delta == IF ev.kind = "ForceDeallocate" THEN -(ev.args.assets)
                                                       ELSE ev.args.change
           IN /\ last'.ok
              /\ NewCapCheckpoints = { <<ev.chainId, ev.transactionHash, ev.logIndex, i>> :
                                          i \in 0..(n - 1) }
              /\ Cardinality(NewCapCheckpoints) = n
              /\ \A i \in 0..(n - 1) :
                    LET cp == db'.capCheckpoint[<<ev.chainId, ev.transactionHash,
                                                  ev.logIndex, i>>]
                        ik == IdentifierKey(ev, ev.args.ids[i + 1])
                    IN /\ cp.identifierHash = ev.args.ids[i + 1]
                       /\ cp.allocation =
                            AllocationIn(db, ik)
                              + delta * Occurrences(SubSeq(ev.args.ids, 1, i + 1),
                                                    ev.args.ids[i + 1])
              /\ \A h \in Identifiers :
                    AllocationIn(db', IdentifierKey(ev, h))
                      = AllocationIn(db, IdentifierKey(ev, h))
                          + delta * Occurrences(ev.args.ids, h) ]_vars

\* Allocate([X, Y], +200), then ForceDeallocate([X, X], 70): the second
\* event has the cap checkpoints 0 and 1, holding 130 and 60.
C35_Witness ==
    /\ Len(log) = 2
    /\ log[1].kind = "Allocate" /\ log[1].args.ids = <<"X", "Y">>
    /\ log[2].kind = "ForceDeallocate" /\ log[2].args.ids = <<"X", "X">>
    /\ last.ok /\ last.event = log[2]
    /\ Cardinality(DOMAIN db.capCheckpoint) = 4
    /\ db.capCheckpoint[CapCheckpointId(log[2], 0)].allocation = 130
    /\ db.capCheckpoint[CapCheckpointId(log[2], 1)].allocation = 60
    /\ db.identifierState[<<1, "vA", "X">>].allocation = 60

\* The sum of sharesBalance over the account rows with keys in S.
RECURSIVE SumOfShares(_)
SumOfShares(S) ==
    IF S = {} THEN 0
    ELSE LET ak == CHOOSE x \in S : TRUE
         IN db.vaultAccount[ak].sharesBalance + SumOfShares(S \ {ak})

\* C36: shares are conserved: for a vault created with totalSupply 0 and no
\* account rows, after any sequence of events in which no Transfer has both
\* from and to equal to the zero address, the sharesBalance of all account
\* rows of the vault add up to the vault's totalSupply.
C36_ShareConservation ==
    (/\ log # << >>
     /\ log[1].kind = "Constructor"
     /\ \A n \in DOMAIN log :
           log[n].kind = "Transfer"
             => ~(log[n].args.from = zeroAddress /\ log[n].args.to = zeroAddress))
    => SumOfShares({ ak \in DOMAIN db.vaultAccount :
                       <<ak[1], ak[2]>> = VaultKeyOf(log[1]) })
         = db.vaultV2[VaultKeyOf(log[1])].totalSupply

\* Constructor, a mint of 4 shares to A, a transfer of 2 of them to B: the
\* supply is 4 and the two accounts hold 2 shares each.
C36_Witness ==
    /\ Len(log) = 3
    /\ log[1].kind = "Constructor"
    /\ log[2].kind = "Transfer" /\ log[2].args = [ from |-> zeroAddress, to |-> "A", shares |-> 4 ]
    /\ log[3].kind = "Transfer" /\ log[3].args = [ from |-> "A", to |-> "B", shares |-> 2 ]
    /\ last.ok /\ last.event = log[3]
    /\ db.vaultV2[MainVault].totalSupply = 4
    /\ db.vaultAccount[<<1, "vA", "A">>].sharesBalance = 2
    /\ db.vaultAccount[<<1, "vA", "B">>].sharesBalance = 2

\* C37: a Constructor event for a vault that has a row already (an earlier
\* event backfilled it) conflicts on its insert: the event fails with the
\* store's error and the store, the owner and the asset of the existing row
\* included, stays as it was; a vault never has a second row.
C37_ConstructorOnExistingRow ==
    [][ \A k \in VaultKeys :
          (/\ FirstDelivery
           /\ last'.event.kind = "Constructor"
           /\ VaultKeyOf(last'.event) = k
           /\ Exists(db, "vaultV2", k))
          => /\ ~last'.ok
             /\ last'.err = "UniqueConstraintError"
             /\ db'.vaultV2[k] = db.vaultV2[k]
             /\ db' = db ]_vars

\* SetOwner(O2) backfilled the row, then the Constructor of the vault
\* failed: the owner is O2 and the asset is still the zero address.
C37_Witness ==
    /\ Len(log) = 2
    /\ log[1].kind = "SetOwner" /\ log[2].kind = "Constructor"
    /\ VaultKeyOf(log[1]) = VaultKeyOf(log[2])
    /\ last.event = log[2] /\ ~last.redelivery
    /\ last.err = "UniqueConstraintError"
    /\ db.vaultV2[VaultKeyOf(log[2])].owner = "O2"
    /\ db.vaultV2[VaultKeyOf(log[2])].asset = zeroAddress

RECURSIVE SumOfAllocations(_, _)
SumOfAllocations(d, S) ==
    IF S = {} THEN 0
    ELSE LET ik == CHOOSE x \in S : TRUE
         IN d.identifierState[ik].allocation + SumOfAllocations(d, S \ {ik})

====
